---- MODULE Spec2Model ----
(***************************************************************************)
(* Model of AutoBlogByGoogleAI: the generateBlogPost extraction pipeline,  *)
(* the Pexels image search / media injection (fetchAndInjectImages) and    *)
(* the App component that drives both.                                     *)
(*                                                                         *)
(* Text is a sequence of tokens.  A token is an atomic run of characters:  *)
(* a section marker such as "[TITLE]", an HTML tag such as "</p>", a       *)
(* whitespace character, or a word.  TokLen gives the number of UTF-16     *)
(* code units the token stands for, so that String.length is the sum.      *)
(***************************************************************************)
EXTENDS Integers, Sequences, FiniteSets, TLC

----------------------------------------------------------------------------
(* Bounds of the model *)

\* number of chunks a raw model response is assembled from
MaxChunks == 2
\* largest number of '</p>' delimiters in a generated body
MaxParas == 10
\* length of the free-form bodies over {"x", "</p>"}
MaxBodyLen == 3
\* number of image keywords the editor can hand to handleImageConfirm
MaxKeywords == 2
\* number of distinct photos the image search can return
MaxAssets == 3
\* how many times React runs the mount effect (2 under StrictMode)
MaxEffectRuns == 2
\* number of source titles of a citation resolution pass
MaxSourceTitles == 2
\* number of citation chunks of a citation resolution pass
MaxCitationChunks == 3

----------------------------------------------------------------------------
(* Tokens *)

Whitespace == {" ", "\n"}

MarkerTokens ==
  {"[TITLE]", "[/TITLE]", "[POST]", "[/POST]", "[TAGS]", "[/TAGS]",
   "[IMAGE_KEYWORDS]", "[/IMAGE_KEYWORDS]", "[SOURCES]", "[/SOURCES]"}

HtmlTags ==
  {"<h1>", "</h1>", "<h2>", "</h2>", "<p>", "</p>", "<b>", "</b>", "<figure>", "</figure>"}

\* String.length of the text a token stands for
TokLen(t) ==
  CASE t \in {"<h1>", "<h2>", "</p>", "</b>"} -> 4
    [] t \in {"</h1>", "</h2>"} -> 5
    [] t \in {"<p>", "<b>"} -> 3
    [] t \in {"[TITLE]", "[/POST]", "[/TAGS]"} -> 7
    [] t \in {"[/TITLE]"} -> 8
    [] t \in {"[POST]", "[TAGS]"} -> 6
    [] t = "[SOURCES]" -> 9
    [] t = "[/SOURCES]" -> 10
    [] t = "[IMAGE_KEYWORDS]" -> 16
    [] t = "[/IMAGE_KEYWORDS]" -> 17
    [] t = "<figure>" -> 92
    [] t = "</figure>" -> 9
    [] t = "w11" -> 11
    [] t = "w10" -> 10
    [] t = "w149" -> 149
    [] t = "w150" -> 150
    [] t \in {"tuja", "sijang", "gisul", "hyeoksin", "ribyu", "jangjeom", "danjeom"} -> 2
    [] OTHER -> 1

RECURSIVE StrLen(_)
StrLen(s) == IF s = <<>> THEN 0 ELSE TokLen(Head(s)) + StrLen(Tail(s))

----------------------------------------------------------------------------
(* String primitives of the JavaScript runtime, on token sequences *)

\* String.prototype.trim
RECURSIVE TrimStart(_)
TrimStart(s) ==
  IF s = <<>> THEN <<>>
  ELSE IF Head(s) \in Whitespace THEN TrimStart(Tail(s)) ELSE s

RECURSIVE TrimEnd(_)
TrimEnd(s) ==
  IF s = <<>> THEN <<>>
  ELSE IF s[Len(s)] \in Whitespace THEN TrimEnd(SubSeq(s, 1, Len(s) - 1)) ELSE s

Trim(s) == TrimEnd(TrimStart(s))

\* indices of the occurrences of token t in s
Positions(s, t) == {i \in 1..Len(s) : s[i] = t}

Min(S) == CHOOSE x \in S : \A y \in S : x <= y

\* String.prototype.split(sep) for a one-token separator: always at least one piece
RECURSIVE Split(_, _)
Split(s, sep) ==
  IF Positions(s, sep) = {} THEN <<s>>
  ELSE LET i == Min(Positions(s, sep))
       IN  <<SubSeq(s, 1, i - 1)>> \o Split(SubSeq(s, i + 1, Len(s)), sep)

\* Array.prototype.join(sep)
RECURSIVE Join(_, _)
Join(parts, sep) ==
  IF parts = <<>> THEN <<>>
  ELSE IF Len(parts) = 1 THEN parts[1]
  ELSE parts[1] \o <<sep>> \o Join(Tail(parts), sep)

\* concatenation of a sequence of strings
RECURSIVE Concat(_)
Concat(chunks) == IF chunks = <<>> THEN <<>> ELSE Head(chunks) \o Concat(Tail(chunks))

\* Array.prototype.filter(Boolean) on an array of strings
RECURSIVE FilterNonEmpty(_)
FilterNonEmpty(parts) ==
  IF parts = <<>> THEN <<>>
  ELSE IF Head(parts) = <<>> THEN FilterNonEmpty(Tail(parts))
  ELSE <<Head(parts)>> \o FilterNonEmpty(Tail(parts))

MapTrim(parts) == [i \in 1..Len(parts) |-> Trim(parts[i])]

\* s.replace(/<[^>]*>/g, '')
RECURSIVE StripTags(_)
StripTags(s) ==
  IF s = <<>> THEN <<>>
  ELSE IF Head(s) \in HtmlTags THEN StripTags(Tail(s))
  ELSE <<Head(s)>> \o StripTags(Tail(s))

\* mutant of MatchPair: the quantifier is greedy and runs to the last CLOSE
MatchPair_Greedy(s, open, close) ==
  LET starts == {i \in Positions(s, open) : \E j \in Positions(s, close) : j > i}
  IN  IF starts = {} THEN [found |-> FALSE, first |-> 0, last |-> 0, inner |-> <<>>]
      ELSE LET i == Min(starts)
               j == CHOOSE k \in Positions(s, close) : \A l \in Positions(s, close) : l <= k
           IN  [found |-> TRUE, first |-> i, last |-> j, inner |-> SubSeq(s, i + 1, j - 1)]

\* s.match(/OPEN([\s\S]*?)CLOSE/): leftmost OPEN that has a CLOSE after it,
\* then the nearest CLOSE.  first = 0 when there is no match.
MatchPair(s, open, close) ==
  LET starts == {i \in Positions(s, open) : \E j \in Positions(s, close) : j > i}
  IN  IF starts = {} THEN [found |-> FALSE, first |-> 0, last |-> 0, inner |-> <<>>]
      ELSE LET i == Min(starts)
               j == Min({k \in Positions(s, close) : k > i})
           IN  [found |-> TRUE, first |-> i, last |-> j, inner |-> SubSeq(s, i + 1, j - 1)]

\* s.replace(/OPEN[\s\S]*?CLOSE/, ''): removes the first match only
RemoveFirstPair(s, open, close) ==
  LET m == MatchPair(s, open, close)
  IN  IF m.found THEN SubSeq(s, 1, m.first - 1) \o SubSeq(s, m.last + 1, Len(s)) ELSE s

\* s.match(/<hN[^>]*>(.*?)<\/hN>/i): as MatchPair, but '.' does not match a newline
MatchHeading(s, open, close) ==
  LET ok(i, j) == j > i /\ \A k \in (i + 1)..(j - 1) : s[k] # "\n"
      starts == {i \in Positions(s, open) : \E j \in Positions(s, close) : ok(i, j)}
  IN  IF starts = {} THEN [found |-> FALSE, inner |-> <<>>]
      ELSE LET i == Min(starts)
               j == Min({k \in Positions(s, close) : ok(i, k)})
           IN  [found |-> TRUE, inner |-> SubSeq(s, i + 1, j - 1)]

----------------------------------------------------------------------------
(* Title resolution *)

\* line.match(/^\[\/?\w+\]$/)
IsBracketMarkerLine(line) == Len(line) = 1 /\ line[1] \in MarkerTokens

\* line.match(/^<\/?[\w\s="':;.#-\/\?\&]+>$/): the class holds neither '<' nor '>'
IsHtmlTagLine(line) == Len(line) = 1 /\ line[1] \in HtmlTags

\* mutant of ScanLines: the lower length bounds are inclusive
RECURSIVE ScanLines_Inclusive(_)
ScanLines_Inclusive(lines) ==
  IF lines = <<>> THEN <<>>
  ELSE LET line == Head(lines)
           plainText == Trim(StripTags(line))
       IN  IF IsBracketMarkerLine(line) THEN ScanLines_Inclusive(Tail(lines))
           ELSE IF IsHtmlTagLine(line) THEN ScanLines_Inclusive(Tail(lines))
           ELSE IF /\ StrLen(line) >= 10
                   /\ StrLen(line) < 150
                   /\ Head(line) \notin HtmlTags
                   /\ StrLen(plainText) >= 10
                THEN plainText
                ELSE ScanLines_Inclusive(Tail(lines))

\* the for loop of extractTitleFromContent over the trimmed, non-empty lines
RECURSIVE ScanLines(_)
ScanLines(lines) ==
  IF lines = <<>> THEN <<>>
  ELSE LET line == Head(lines)
           plainText == Trim(StripTags(line))
       IN  IF IsBracketMarkerLine(line) THEN ScanLines(Tail(lines))
           ELSE IF IsHtmlTagLine(line) THEN ScanLines(Tail(lines))
           ELSE IF /\ StrLen(line) > 10
                   /\ StrLen(line) < 150
                   /\ Head(line) \notin HtmlTags
                   /\ StrLen(plainText) > 10
                THEN plainText
                ELSE ScanLines(Tail(lines))

\* mutant of extractTitleFromContent: the h2 is tried before the h1
extractTitleFromContent_H2First(rawText, post) ==
  LET h1Match == MatchHeading(post, "<h1>", "</h1>")
      h2Match == MatchHeading(post, "<h2>", "</h2>")
      lines == FilterNonEmpty(MapTrim(Split(rawText, "\n")))
  IN  IF h2Match.found /\ Trim(h2Match.inner) # <<>>
        THEN StripTags(Trim(h2Match.inner))
      ELSE IF h1Match.found /\ Trim(h1Match.inner) # <<>>
        THEN StripTags(Trim(h1Match.inner))
      ELSE ScanLines(lines)

extractTitleFromContent(rawText, post) ==
  LET h1Match == MatchHeading(post, "<h1>", "</h1>")
      h2Match == MatchHeading(post, "<h2>", "</h2>")
      lines == FilterNonEmpty(MapTrim(Split(rawText, "\n")))
  IN  IF h1Match.found /\ Trim(h1Match.inner) # <<>>
        THEN StripTags(Trim(h1Match.inner))
      ELSE IF h2Match.found /\ Trim(h2Match.inner) # <<>>
        THEN StripTags(Trim(h2Match.inner))
      ELSE ScanLines(lines)

\* Korean words and templates are written romanised (tuja = investment,
\* sijang = market, gisul = technology, hyeoksin = innovation, ribyu = review,
\* jangjeom = advantage, danjeom = drawback).
\* post.replace(/<[^>]*>/g, ' ').replace(/\s+/g, ' ').trim(); only membership of
\* words is read from it, and a tag or a blank never joins two tokens into a word
TextContent(post) == StripTags(post)

Includes(s, word) == Positions(s, word) # {}

\* const templates = [...]: the fixed template set, in source order
templates(kw) ==
  << kw \o <<": choesin donghyang-gwa bunseok">>,
     kw \o <<"e daehan modeun geot">>,
     kw \o <<" wanbyeok gaideu">>,
     <<"araya hal ">> \o kw \o <<" haeksim jeongbo">>,
     kw \o <<" sijang bunseok ripoteu">> >>

\* mutant of generateFallbackTitle: the review class is tested before the
\* technology class
generateFallbackTitle_ReviewFirst(kw, post) ==
  LET textContent == TextContent(post)
  IN  IF Includes(textContent, "tuja") \/ Includes(textContent, "sijang")
        THEN kw \o <<" sijang donghyang mit tuja jeonmang">>
      ELSE IF \/ Includes(textContent, "ribyu")
              \/ Includes(textContent, "jangjeom")
              \/ Includes(textContent, "danjeom")
        THEN kw \o <<" simcheung bunseok mit ribyu">>
      ELSE IF Includes(textContent, "gisul") \/ Includes(textContent, "hyeoksin")
        THEN kw \o <<": gisul hyeoksin-gwa mirae jeonmang">>
      ELSE templates(kw)[1]

\* mutant of generateFallbackTitle: the default template is missing
generateFallbackTitle_NoDefault(kw, post) ==
  LET textContent == TextContent(post)
  IN  IF Includes(textContent, "tuja") \/ Includes(textContent, "sijang")
        THEN kw \o <<" sijang donghyang mit tuja jeonmang">>
      ELSE <<>>

generateFallbackTitle(kw, post) ==
  LET textContent == TextContent(post)
  IN  IF Includes(textContent, "tuja") \/ Includes(textContent, "sijang")
        THEN kw \o <<" sijang donghyang mit tuja jeonmang">>
      ELSE IF Includes(textContent, "gisul") \/ Includes(textContent, "hyeoksin")
        THEN kw \o <<": gisul hyeoksin-gwa mirae jeonmang">>
      ELSE IF \/ Includes(textContent, "ribyu")
              \/ Includes(textContent, "jangjeom")
              \/ Includes(textContent, "danjeom")
        THEN kw \o <<" simcheung bunseok mit ribyu">>
      ELSE templates(kw)[1]


----------------------------------------------------------------------------
(* generateBlogPost *)

\* tags.slice(0, 10)
MaxTags == 10

\* str.split(',').map(x => x.trim()).filter(Boolean)
SplitList(str) == FilterNonEmpty(MapTrim(Split(str, ",")))

\* mutant of Slice: the list is not cut
Slice_Uncut(arr, n) == arr

Slice(arr, n) == SubSeq(arr, 1, IF Len(arr) < n THEN Len(arr) ELSE n)

FailedPostPlaceholder == <<"<p>", "blog bonmun saengseong silpae", "</p>">>

\* The source titles of a SOURCES section: one per line, a leading bullet or
\* number followed by whitespace removed, empty lines dropped.
Bullets == {"-", "*", "1.", "2."}

StripBullet(line) ==
  IF Len(line) >= 2 /\ line[1] \in Bullets /\ line[2] \in Whitespace
    THEN TrimStart(Tail(line))
    ELSE line

SplitSources(str) ==
  FilterNonEmpty([i \in 1..Len(Split(str, "\n")) |-> StripBullet(Trim(Split(str, "\n")[i]))])

NoSections == [title |-> <<>>, post |-> <<>>, tags |-> <<>>, imageKeywords |-> <<>>,
               sourceTitles |-> <<>>]

NoResult == [title |-> <<>>, post |-> <<>>, tags |-> <<>>, imageKeywords |-> <<>>]

\* mutant of IsNoSchema: the TAGS marker is forgotten in the test
IsNoSchema_IgnoresTags(titleMatch, postMatch, tagsMatch) ==
  ~titleMatch.found /\ ~postMatch.found

\* if (!titleMatch && !postMatch && !tagsMatch)
IsNoSchema(titleMatch, postMatch, tagsMatch) ==
  ~titleMatch.found /\ ~postMatch.found /\ ~tagsMatch.found

\* the body of the try block, from rawText = response.text to the return
ParseResponse(kw, rawText) ==
  LET titleMatch == MatchPair(rawText, "[TITLE]", "[/TITLE]")
      postMatch == MatchPair(rawText, "[POST]", "[/POST]")
      tagsMatch == MatchPair(rawText, "[TAGS]", "[/TAGS]")
      imageKeywordsMatch == MatchPair(rawText, "[IMAGE_KEYWORDS]", "[/IMAGE_KEYWORDS]")
      title0 == IF titleMatch.found THEN Trim(titleMatch.inner) ELSE <<>>
      post0 == IF postMatch.found THEN Trim(postMatch.inner) ELSE <<>>
      tagsString == IF tagsMatch.found THEN Trim(tagsMatch.inner) ELSE <<>>
      tags == SplitList(tagsString)
      imageKeywordsString ==
        IF imageKeywordsMatch.found THEN Trim(imageKeywordsMatch.inner) ELSE <<>>
      imageKeywords == SplitList(imageKeywordsString)
      sourcesMatch == MatchPair(rawText, "[SOURCES]", "[/SOURCES]")
      sourceTitles == SplitSources(IF sourcesMatch.found THEN Trim(sourcesMatch.inner) ELSE <<>>)
      noSchema == IsNoSchema(titleMatch, postMatch, tagsMatch)
      stripped ==
        Trim(RemoveFirstPair(RemoveFirstPair(rawText, "[TITLE]", "[/TITLE]"),
                             "[TAGS]", "[/TAGS]"))
      post1 == IF post0 # <<>> THEN post0
               ELSE IF stripped # <<>> THEN stripped
               ELSE FailedPostPlaceholder
      extracted == extractTitleFromContent(rawText, post1)
      title1 == IF title0 # <<>> THEN title0
                ELSE IF extracted # <<>> THEN extracted
                ELSE generateFallbackTitle(kw, post1)
  IN  [noSchema |-> noSchema,
       sections |-> [title |-> title0, post |-> post0, tags |-> tags,
                     imageKeywords |-> imageKeywords, sourceTitles |-> sourceTitles],
       value |-> [title |-> IF noSchema THEN kw ELSE title1,
                  post |-> IF noSchema THEN rawText ELSE post1,
                  tags |-> Slice(tags, MaxTags),
                  imageKeywords |-> imageKeywords]]

ErrorPrefix == "beullogeu geul saengseong jung oryu balsaeng: "
UnknownErrorMessage == "al su eomneun oryuga balsaenghaetseumnida."

\* What the awaited ai.models.generateContent call can do: resolve with a text,
\* reject with an Error carrying a message ("error"), or reject with a value that
\* is no Error ("nonError"; message is then the text of that value).
ModelOutcome(kind, text, message) == [kind |-> kind, text |-> text, message |-> message]

\* mutant of WrapError: the upstream message is dropped from the wrapped error
WrapError_DropsMessage(outcome) ==
  IF outcome.kind = "error" THEN <<ErrorPrefix>> ELSE <<UnknownErrorMessage>>

\* the catch block of generateBlogPost
WrapError(outcome) ==
  IF outcome.kind = "error" THEN <<ErrorPrefix>> \o outcome.message
  ELSE <<UnknownErrorMessage>>

\* generateBlogPost(keyword, dateRange, template) once the model call has settled.
\* dateRange and template only select the prompt text and are not modelled.
generateBlogPost(kw, outcome) ==
  IF outcome.kind = "text"
    THEN LET parsed == ParseResponse(kw, outcome.text)
         IN  [threw |-> FALSE, errors |-> <<>>, noSchema |-> parsed.noSchema,
              sections |-> parsed.sections, value |-> parsed.value]
    ELSE [threw |-> TRUE, errors |-> <<WrapError(outcome)>>, noSchema |-> FALSE,
          sections |-> NoSections, value |-> NoResult]


----------------------------------------------------------------------------
(* State *)

VARIABLES
  keyword,            \* App: useState keyword
  generationPhase,    \* App: useState generationPhase
  blogResult,         \* App: useState blogResult, <<>> for null, <<r>> otherwise
  pendingBlogResult,  \* App: useState pendingBlogResult, <<>> for null
  error,              \* App: useState error, <<>> for ''
  autoStartRef,       \* App: autoStartRef.current
  effectsPending,     \* runs of the mount effect React has still to make
  pexelsConfigured,   \* whether PEXELS_API_KEY is set in the environment
  genCalls,           \* generateBlogPost calls awaiting the model
  fiCalls,            \* fetchAndInjectImages calls that have not returned to their caller
  pxCalls,            \* direct fetchImagesFromPexels calls awaiting the HTTP response
  lastGen,            \* history: the generateBlogPost call of the current request, once settled
  lastFi,             \* history: the fetchAndInjectImages call of the current run, once returned
  lastSearch,         \* history: the fetchImagesFromPexels call that returned last in this run
  lastTitle,          \* history: the last direct call of a title resolution function
  cite,               \* the citation resolution pass in progress
  digest              \* the daily-digest request being handled

vars == <<keyword, generationPhase, blogResult, pendingBlogResult, error, autoStartRef,
          effectsPending, pexelsConfigured, genCalls, fiCalls, pxCalls,
          lastGen, lastFi, lastSearch, lastTitle, cite, digest>>

appVars == <<keyword, generationPhase, blogResult, pendingBlogResult, error, autoStartRef,
             effectsPending>>

\* request keywords: empty, blank, and a proper one
Keywords == {<<>>, <<" ">>, <<"kw">>}

NoGen == [called |-> FALSE, keyword |-> <<>>, outcome |-> ModelOutcome("none", <<>>, <<>>),
          threw |-> FALSE, errors |-> <<>>, noSchema |-> FALSE, sections |-> NoSections,
          value |-> NoResult]

NoSearch == [called |-> FALSE, configured |-> FALSE, query |-> <<>>, requested |-> FALSE,
             response |-> [kind |-> "none", photos |-> <<>>],
             raised |-> FALSE, photos |-> <<>>]

NoFi == [called |-> FALSE, configured |-> FALSE, post |-> <<>>, imageKeywords |-> <<>>,
         fallbackKeyword |-> <<>>, issued |-> <<>>, results |-> <<>>, images |-> <<>>,
         threw |-> FALSE, out |-> [post |-> <<>>, imagesFound |-> FALSE]]

NoTitle == [called |-> FALSE, fn |-> "none", keyword |-> <<>>, rawText |-> <<>>,
            post |-> <<>>, result |-> <<>>]

NoCite == [sourceTitles |-> <<>>, citationChunks |-> <<>>, used |-> <<>>, bound |-> <<>>,
           rendered |-> FALSE, items |-> <<>>]

NoDigest == [pc |-> "none",
             env |-> [API_KEY |-> <<>>, GMAIL_USER |-> <<>>, CRON_SECRET |-> <<>>],
             req |-> [authorization |-> <<>>, key |-> <<>>],
             authFailed |-> FALSE, modelCalls |-> 0,
             outcome |-> ModelOutcome("none", <<>>, <<>>), titles |-> <<>>,
             mails |-> <<>>, sent |-> <<>>, delivered |-> FALSE, responses |-> <<>>]

\* const isLoading = generationPhase === 'generating' || generationPhase === 'fetchingImages'
isLoading == generationPhase \in {"generating", "fetchingImages"}

InitApp ==
  /\ keyword = <<>>
  /\ generationPhase = "idle"
  /\ blogResult = <<>>
  /\ pendingBlogResult = <<>>
  /\ error = <<>>
  /\ autoStartRef = FALSE
  /\ genCalls = <<>>
  /\ fiCalls = <<>>
  /\ pxCalls = <<>>
  /\ lastGen = NoGen
  /\ lastFi = NoFi
  /\ lastSearch = NoSearch
  /\ lastTitle = NoTitle
  /\ cite = NoCite
  /\ digest = NoDigest

----------------------------------------------------------------------------
(* App: generation *)

KeywordRequiredMessage == "kiwodeureul ipryeokhaejuseyo."
GenerationFailedPrefix == "geul saengseonge silpaehaetseumnida: "

\* mutant of StartGeneration: the shown result is not cleared
StartGeneration_KeepsResult(kw) ==
  /\ generationPhase' = "generating"
  /\ error' = <<>>
  /\ UNCHANGED blogResult
  /\ pendingBlogResult' = <<>>
  /\ genCalls' = Append(genCalls, [keyword |-> kw])
  /\ lastGen' = NoGen
  /\ lastFi' = NoFi
  /\ lastSearch' = NoSearch

\* the statements both callers run before awaiting generateBlogPost
StartGeneration(kw) ==
  /\ generationPhase' = "generating"
  /\ error' = <<>>
  /\ blogResult' = <<>>
  /\ pendingBlogResult' = <<>>
  /\ genCalls' = Append(genCalls, [keyword |-> kw])
  /\ lastGen' = NoGen
  /\ lastFi' = NoFi
  /\ lastSearch' = NoSearch

\* mutant of AutoStartEffect: autoStartRef is not consulted
AutoStartEffect_NoRefGuard ==
  /\ effectsPending > 0
  /\ effectsPending' = effectsPending - 1
  /\ \E keywordParam \in Keywords, autoParam \in BOOLEAN :
       IF keywordParam # <<>> /\ autoParam
         THEN /\ autoStartRef' = TRUE
              /\ keyword' = keywordParam
              /\ StartGeneration(keywordParam)
         ELSE UNCHANGED <<autoStartRef, keyword, generationPhase, error, blogResult,
                          pendingBlogResult, genCalls, lastGen, lastFi, lastSearch>>
  /\ UNCHANGED <<pexelsConfigured, digest, lastTitle, cite, fiCalls, pxCalls>>

\* the mount effect: reads keyword and auto from window.location.search
AutoStartEffect ==
  /\ effectsPending > 0
  /\ effectsPending' = effectsPending - 1
  /\ \E keywordParam \in Keywords, autoParam \in BOOLEAN :
       IF ~autoStartRef /\ keywordParam # <<>> /\ autoParam
         THEN /\ autoStartRef' = TRUE
              /\ keyword' = keywordParam
              /\ StartGeneration(keywordParam)
         ELSE UNCHANGED <<autoStartRef, keyword, generationPhase, error, blogResult,
                          pendingBlogResult, genCalls, lastGen, lastFi, lastSearch>>
  /\ UNCHANGED <<pexelsConfigured, digest, lastTitle, cite, fiCalls, pxCalls>>

\* onChange of the keyword input, which is disabled while isLoading
SetKeyword ==
  /\ effectsPending = 0
  /\ ~isLoading
  /\ \E k \in Keywords : keyword' = k /\ k # keyword
  /\ UNCHANGED <<generationPhase, blogResult, pendingBlogResult, error, autoStartRef,
                 effectsPending, pexelsConfigured, digest, lastTitle, cite, genCalls, fiCalls,
                 pxCalls,
                 lastGen, lastFi, lastSearch>>

\* mutant of handleGenerateClick: the keyword is not tested
handleGenerateClick_NoKeywordTest ==
  /\ effectsPending = 0
  /\ ~isLoading
  /\ StartGeneration(keyword)
  /\ UNCHANGED <<keyword, autoStartRef, effectsPending, pexelsConfigured, digest, lastTitle, cite, fiCalls, pxCalls>>

\* the generate button (disabled while isLoading) or Enter in the input (&& !isLoading)
handleGenerateClick ==
  /\ effectsPending = 0
  /\ ~isLoading
  /\ IF Trim(keyword) = <<>>
       THEN /\ error' = <<KeywordRequiredMessage>>
            /\ UNCHANGED <<generationPhase, blogResult, pendingBlogResult, genCalls, lastGen,
                           lastFi, lastSearch>>
       ELSE StartGeneration(keyword)
  /\ UNCHANGED <<keyword, autoStartRef, effectsPending, pexelsConfigured, digest, lastTitle, cite, fiCalls, pxCalls>>

RemoveAt(seq, i) == SubSeq(seq, 1, i - 1) \o SubSeq(seq, i + 1, Len(seq))

\* mutant of GenerateSettle: the caller has no catch block, a failure leaves the
\* phase as it is
GenerateSettle_NoCatch(outcome) ==
  \E c \in 1..Len(genCalls) :
    LET r == generateBlogPost(genCalls[c].keyword, outcome)
    IN  /\ genCalls' = RemoveAt(genCalls, c)
        /\ lastGen' = [called |-> TRUE, keyword |-> genCalls[c].keyword, outcome |-> outcome,
                       threw |-> r.threw, errors |-> r.errors, noSchema |-> r.noSchema,
                       sections |-> r.sections, value |-> r.value]
        /\ IF r.threw
             THEN UNCHANGED <<error, generationPhase, pendingBlogResult>>
             ELSE /\ pendingBlogResult' = <<r.value>>
                  /\ generationPhase' = "awaitingImageConfirmation"
                  /\ UNCHANGED error
        /\ UNCHANGED <<keyword, blogResult, autoStartRef, effectsPending, pexelsConfigured, digest, lastTitle, cite,
                       fiCalls, pxCalls, lastFi, lastSearch>>

\* The awaited model call of one generateBlogPost call settles with `outcome`;
\* generateBlogPost returns or throws, and the caller's continuation runs.
GenerateSettle(outcome) ==
  \E c \in 1..Len(genCalls) :
    LET r == generateBlogPost(genCalls[c].keyword, outcome)
    IN  /\ genCalls' = RemoveAt(genCalls, c)
        /\ lastGen' = [called |-> TRUE, keyword |-> genCalls[c].keyword, outcome |-> outcome,
                       threw |-> r.threw, errors |-> r.errors, noSchema |-> r.noSchema,
                       sections |-> r.sections, value |-> r.value]
        /\ IF r.threw
             THEN /\ error' = <<GenerationFailedPrefix>> \o r.errors[1]
                  /\ generationPhase' = "idle"
                  /\ UNCHANGED pendingBlogResult
             ELSE /\ pendingBlogResult' = <<r.value>>
                  /\ generationPhase' = "awaitingImageConfirmation"
                  /\ UNCHANGED error
        /\ UNCHANGED <<keyword, blogResult, autoStartRef, effectsPending, pexelsConfigured, digest, lastTitle, cite,
                       fiCalls, pxCalls, lastFi, lastSearch>>

UpstreamMessages == {<<"upstream">>, <<>>}

ModelResolves(texts) ==
  \E text \in texts : GenerateSettle(ModelOutcome("text", text, <<>>))

ModelRejects ==
  \E kind \in {"error", "nonError"}, m \in UpstreamMessages :
    GenerateSettle(ModelOutcome(kind, <<>>, m))

----------------------------------------------------------------------------
(* Raw model responses for the extraction claims *)

GenChunks ==
  { <<"[TITLE]", "T", "[/TITLE]">>,
    <<"[TITLE]", " ", "[/TITLE]">>,
    <<"[TITLE]">>,
    <<"[POST]", "<p>", "x", "</p>", "[/POST]">>,
    <<"[POST]", "<h1>", "<b>", "H", "</b>", "</h1>", "[/POST]">>,
    <<"[POST]", " ", "[/POST]">>,
    <<"[POST]", "<h1>", "<b>", "</b>", "</h1>", "[/POST]">>,
    <<"[TAGS]", "a", ",", "b", "[/TAGS]">>,
    <<"[IMAGE_KEYWORDS]", "k1", ",", "k2", "[/IMAGE_KEYWORDS]">>,
    <<"\n", "w11", "\n">>,
    <<"x">>,
    <<"[/TITLE]">> }

GenTexts ==
  UNION {{Concat(cs) : cs \in [1..n -> GenChunks]} : n \in 0..MaxChunks}

InitGen ==
  /\ InitApp
  /\ effectsPending \in 1..MaxEffectRuns
  /\ pexelsConfigured \in BOOLEAN

NextGen ==
  \/ AutoStartEffect
  \/ SetKeyword
  \/ handleGenerateClick
  \/ ModelResolves(GenTexts)
  \/ ModelRejects

SpecGen == InitGen /\ [][NextGen]_vars


----------------------------------------------------------------------------
(* Image search: fetchImagesFromPexels *)

PhotoPool == <<"photo1", "photo2", "photo3", "photo4", "photo5", "photo6">>

\* results of one search: runs of photos of the catalogue, in the order received
AssetLists ==
  {<<>>} \cup {SubSeq(PhotoPool, a, b) : a \in 1..MaxAssets, b \in 1..MaxAssets}

\* What the HTTP exchange of one search can do: "ok" (response.ok, JSON with
\* photos), "noPhotos" (response.ok, JSON without a photos field), "notOk"
\* (!response.ok), "networkError" (fetch rejects), "decodeError" (response.json rejects)
FailureKinds == {"notOk", "networkError", "decodeError"}

SearchResponses ==
  {[kind |-> "ok", photos |-> l] : l \in AssetLists}
    \cup {[kind |-> k, photos |-> <<>>] : k \in {"noPhotos"} \cup FailureKinds}

\* mutant of fetchImagesFromPexelsSettle: no try/catch around the request
fetchImagesFromPexelsSettle_NoCatch(response) ==
  [raised |-> response.kind \in FailureKinds,
   photos |-> IF response.kind = "ok" THEN response.photos ELSE <<>>]

\* fetchImagesFromPexels from the settling of fetch() to its return:
\* the try block and the catch block
fetchImagesFromPexelsSettle(response) ==
  [raised |-> FALSE,
   photos |-> IF response.kind = "ok" THEN response.photos ELSE <<>>]

SearchRecord(configured, query, requested, response, r) ==
  [called |-> TRUE, configured |-> configured, query |-> query, requested |-> requested,
   response |-> response, raised |-> r.raised, photos |-> r.photos]

NoResponse == [kind |-> "none", photos |-> <<>>]

Queries == {<<"k1">>, <<"k2">>, <<"kw">>}

\* a direct call fetchImagesFromPexels(query): without an API key it returns []
\* at once, otherwise it awaits the HTTP exchange
FetchImagesCall ==
  /\ pxCalls = <<>>
  /\ \E query \in Queries :
       IF ~pexelsConfigured
         THEN /\ lastSearch' = SearchRecord(FALSE, query, FALSE, NoResponse,
                                            [raised |-> FALSE, photos |-> <<>>])
              /\ UNCHANGED pxCalls
         ELSE /\ pxCalls' = Append(pxCalls, [query |-> query])
              /\ UNCHANGED lastSearch
  /\ UNCHANGED <<appVars, pexelsConfigured, digest, lastTitle, cite, genCalls, fiCalls, lastGen, lastFi>>

FetchImagesSettle ==
  /\ pxCalls # <<>>
  /\ \E response \in SearchResponses :
       lastSearch' = SearchRecord(pexelsConfigured, Head(pxCalls).query, TRUE, response,
                                  fetchImagesFromPexelsSettle(response))
  /\ pxCalls' = Tail(pxCalls)
  /\ UNCHANGED <<appVars, pexelsConfigured, digest, lastTitle, cite, genCalls, fiCalls, lastGen, lastFi>>

InitSearch ==
  /\ InitApp
  /\ effectsPending = 0
  /\ pexelsConfigured \in BOOLEAN

NextSearch == FetchImagesCall \/ FetchImagesSettle

SpecSearch == InitSearch /\ [][NextSearch]_vars

----------------------------------------------------------------------------
(* Media injection: the synchronous tail of fetchAndInjectImages *)

\* imgHtml: the figure block with the whitespace the template literal puts around it
imgHtml(img) == <<"\n", " ", "<figure>", img, "</figure>", "\n", " ">>

\* mutant of Points: the target indices are rounded up
Points_Ceil(n) == {(n * 2 + 9) \div 10, (n * 5 + 9) \div 10, (n * 8 + 9) \div 10}

\* points = [Math.floor(n * 0.2), Math.floor(n * 0.5), Math.floor(n * 0.8)]; the
\* doubles 0.2 and 0.8 lie above 1/5 and 4/5 by less than one ulp, so the floors
\* are those of the exact products
Points(n) == {(n * 2) \div 10, (n * 5) \div 10, (n * 8) \div 10}

\* mutant of IsLongBody: off by one
IsLongBody_AtLeastThree(n) == n >= 3

\* if (totalParagraphs > 3)
IsLongBody(n) == n > 3

\* the for loop over paragraphs; i is the 1-based index (i + 1 in the code),
\* imageIndex the 1-based cursor into images
RECURSIVE InjectLoop(_, _, _, _)
InjectLoop(paragraphs, i, imageIndex, images) ==
  IF i > Len(paragraphs) THEN <<>>
  ELSE IF imageIndex <= Len(images) /\ i \in Points(Len(paragraphs))
    THEN paragraphs[i] \o <<"</p>">> \o imgHtml(images[imageIndex])
           \o InjectLoop(paragraphs, i + 1, imageIndex + 1, images)
    ELSE paragraphs[i] \o <<"</p>">> \o InjectLoop(paragraphs, i + 1, imageIndex, images)

\* mutant of InjectShort: every image is appended after the first paragraph
InjectShort_AllImages(paragraphs, images) ==
  paragraphs[1] \o <<"</p>">> \o Concat([k \in 1..Len(images) |-> imgHtml(images[k])])
    \o Join(Tail(paragraphs), "</p>")

\* paragraphs[0] + '</p>' + imgHtml + paragraphs.slice(1).join('</p>')
InjectShort(paragraphs, images) ==
  paragraphs[1] \o <<"</p>">> \o imgHtml(images[1]) \o Join(Tail(paragraphs), "</p>")

\* fetchAndInjectImages from 'const paragraphs = post.split("</p>")' on,
\* for a non-empty list of images
InjectImages(post, images) ==
  LET paragraphs == Split(post, "</p>")
  IN  IF IsLongBody(Len(paragraphs))
        THEN [post |-> InjectLoop(paragraphs, 1, 1, images), imagesFound |-> TRUE]
      ELSE IF Len(paragraphs) >= 1
        THEN [post |-> InjectShort(paragraphs, images), imagesFound |-> TRUE]
      ELSE [post |-> post, imagesFound |-> FALSE]

\* mutant of FinishCall: the body is rebuilt from its fragments before the images
\* are looked at
FinishCall_Rebuilds(post, images) ==
  IF images = <<>>
    THEN [post |-> InjectLoop(Split(post, "</p>"), 1, 1, <<>>), imagesFound |-> FALSE]
    ELSE InjectImages(post, images)

\* if (images.length === 0) return { post, imagesFound: false }; else inject
FinishCall(post, images) ==
  IF images = <<>> THEN [post |-> post, imagesFound |-> FALSE]
  ELSE InjectImages(post, images)

----------------------------------------------------------------------------
(* fetchAndInjectImages as a process: one step per awaited search *)

\* mutant of FirstQueries: all searches are issued at once
FirstQueries_FanOut(imageKeywords, fallbackKeyword) ==
  imageKeywords \o <<fallbackKeyword>>

\* the search issued before the first await: the first image keyword, or the
\* fallback keyword when no image keyword was supplied
FirstQueries(imageKeywords, fallbackKeyword) ==
  IF Len(imageKeywords) > 0 THEN <<imageKeywords[1]>> ELSE <<fallbackKeyword>>

\* The call record of fetchAndInjectImages(post, imageKeywords, fallbackKeyword) when
\* it reaches its first await, or its return if Pexels is not configured.
\* pending and caller belong to the caller's continuation.
FiStart(post, imageKeywords, fallbackKeyword, pending, caller) ==
  [post |-> post, imageKeywords |-> imageKeywords, fallbackKeyword |-> fallbackKeyword,
   pending |-> pending, caller |-> caller, configured |-> pexelsConfigured,
   pc |-> IF ~pexelsConfigured THEN "done"
          ELSE IF Len(imageKeywords) > 0 THEN "keywords" ELSE "fallback",
   i |-> 1,
   inflight |-> IF ~pexelsConfigured THEN <<>>
                ELSE FirstQueries(imageKeywords, fallbackKeyword),
   issued |-> IF ~pexelsConfigured THEN <<>>
              ELSE FirstQueries(imageKeywords, fallbackKeyword),
   results |-> <<>>, images |-> <<>>, threw |-> FALSE,
   out |-> [post |-> post, imagesFound |-> FALSE]]

\* mutant of FiAfterSearch: the keyword loop has no break, so it goes on to the
\* next keyword after a search that found images
FiAfterSearch_NoBreak(call, r) ==
  LET rest == Tail(call.inflight)
      done(images) == [call EXCEPT !.pc = "done", !.inflight = rest, !.images = images,
                                   !.results = Append(call.results, r.photos),
                                   !.out = FinishCall(call.post, images)]
      issue(q, pc, i) == [call EXCEPT !.pc = pc, !.i = i, !.images = r.photos,
                                      !.inflight = Append(rest, q),
                                      !.issued = Append(call.issued, q),
                                      !.results = Append(call.results, r.photos)]
  IN  IF r.raised
        THEN [call EXCEPT !.pc = "done", !.inflight = rest, !.threw = TRUE]
      ELSE IF call.pc = "fallback" THEN done(r.photos)
      ELSE IF call.i < Len(call.imageKeywords)
        THEN issue(call.imageKeywords[call.i + 1], "keywords", call.i + 1)
      ELSE IF Len(r.photos) > 0 THEN done(r.photos)
      ELSE issue(call.fallbackKeyword, "fallback", call.i)

\* the call after the search it awaits has returned r
FiAfterSearch(call, r) ==
  LET rest == Tail(call.inflight)
      done(images) == [call EXCEPT !.pc = "done", !.inflight = rest, !.images = images,
                                   !.results = Append(call.results, r.photos),
                                   !.out = FinishCall(call.post, images)]
      issue(q, pc, i) == [call EXCEPT !.pc = pc, !.i = i, !.images = r.photos,
                                      !.inflight = Append(rest, q),
                                      !.issued = Append(call.issued, q),
                                      !.results = Append(call.results, r.photos)]
  IN  IF r.raised
        THEN [call EXCEPT !.pc = "done", !.inflight = rest, !.threw = TRUE]
      ELSE IF call.pc = "fallback" THEN done(r.photos)
      ELSE IF Len(r.photos) > 0 THEN done(r.photos)
      ELSE IF call.i < Len(call.imageKeywords)
        THEN issue(call.imageKeywords[call.i + 1], "keywords", call.i + 1)
      ELSE issue(call.fallbackKeyword, "fallback", call.i)

\* the search a fetchAndInjectImages call awaits returns
SearchReturn(responses) ==
  /\ \E c \in 1..Len(fiCalls), response \in responses :
       /\ fiCalls[c].pc # "done"
       /\ fiCalls[c].inflight # <<>>
       /\ LET r == fetchImagesFromPexelsSettle(response)
          IN  /\ fiCalls' = [fiCalls EXCEPT ![c] = FiAfterSearch(fiCalls[c], r)]
              /\ lastSearch' = SearchRecord(pexelsConfigured, Head(fiCalls[c].inflight),
                                            TRUE, response, r)
  /\ UNCHANGED <<appVars, pexelsConfigured, digest, lastTitle, cite, genCalls, pxCalls, lastGen, lastFi>>

FiRecord(call) ==
  [called |-> TRUE, configured |-> call.configured, post |-> call.post,
   imageKeywords |-> call.imageKeywords, fallbackKeyword |-> call.fallbackKeyword,
   issued |-> call.issued, results |-> call.results, images |-> call.images,
   threw |-> call.threw, out |-> call.out]

----------------------------------------------------------------------------
(* fetchAndInjectImages called directly, on bodies of every shape *)

ParaText == <<"t1", "t2", "t3", "t4", "t5", "t6", "t7", "t8", "t9", "t10", "t11", "t12">>

\* p paragraphs <p>t_k</p>
ParaBody(p) == Concat([k \in 1..p |-> <<"<p>", ParaText[k], "</p>">>])

\* bodies of whole paragraphs, with and without text after the last one
ParaBodies == {ParaBody(p) \o tl : p \in 0..MaxParas, tl \in {<<>>, <<"x">>}}

\* every arrangement of text and paragraph ends up to MaxBodyLen tokens
FreeBodies == UNION {[1..n -> {"x", "</p>"}] : n \in 0..MaxBodyLen}

\* bodies that already went through an injection
InjectedBodies == {InjectImages(b, <<"photo1">>).post : b \in {ParaBody(1), ParaBody(4)}}

Bodies == ParaBodies \cup FreeBodies \cup InjectedBodies

KeywordPool == {<<"k1">>, <<"kw">>}

KeywordLists == UNION {[1..n -> KeywordPool] : n \in 0..MaxKeywords}

\* searches inside fetchAndInjectImages: every result list, and one failing exchange
InjectResponses == {r \in SearchResponses : r.kind \in {"ok", "notOk"}}

\* a direct call; one per run, the function keeps no state between calls
FetchAndInjectCall ==
  /\ fiCalls = <<>>
  /\ ~lastFi.called
  /\ \E post \in Bodies, imageKeywords \in KeywordLists :
       fiCalls' = <<FiStart(post, imageKeywords, <<"kw">>, NoResult, "direct")>>
  /\ lastFi' = NoFi
  /\ lastSearch' = NoSearch
  /\ UNCHANGED <<appVars, pexelsConfigured, digest, lastTitle, cite, genCalls, pxCalls, lastGen>>

\* the promise of a direct call settles
FetchAndInjectReturn ==
  /\ \E c \in 1..Len(fiCalls) :
       /\ fiCalls[c].pc = "done"
       /\ fiCalls[c].caller = "direct"
       /\ lastFi' = FiRecord(fiCalls[c])
       /\ fiCalls' = RemoveAt(fiCalls, c)
  /\ UNCHANGED <<appVars, pexelsConfigured, digest, lastTitle, cite, genCalls, pxCalls, lastGen, lastSearch>>

InitInject ==
  /\ InitApp
  /\ effectsPending = 0
  /\ pexelsConfigured \in BOOLEAN

NextInject ==
  \/ FetchAndInjectCall
  \/ SearchReturn(InjectResponses)
  \/ FetchAndInjectReturn

SpecInject == InitInject /\ [][NextInject]_vars

----------------------------------------------------------------------------
(* App: image confirmation, skip and regeneration *)

\* the ImageKeywordEditor is on screen: the render shows it when the phase is
\* not a loading one, error is empty, and a pending result awaits confirmation
EditorShown ==
  /\ ~isLoading
  /\ error = <<>>
  /\ generationPhase = "awaitingImageConfirmation"
  /\ pendingBlogResult # <<>>

\* BlogPostDisplay of blogResult is on screen
ResultShown ==
  /\ ~isLoading
  /\ error = <<>>
  /\ ~(generationPhase = "awaitingImageConfirmation" /\ pendingBlogResult # <<>>)
  /\ blogResult # <<>>

\* ImageKeywordEditor.handleConfirm passes the non-blank keywords of its slots;
\* its button is disabled while every slot is blank
EditorKeywordLists == KeywordLists \ {<<>>}

handleImageConfirm ==
  /\ effectsPending = 0
  /\ EditorShown
  /\ \E imageKeywords \in EditorKeywordLists :
       IF pendingBlogResult = <<>>
         THEN UNCHANGED <<generationPhase, fiCalls, lastFi, lastSearch>>
         ELSE /\ generationPhase' = "fetchingImages"
              /\ fiCalls' = Append(fiCalls,
                                   FiStart(pendingBlogResult[1].post, imageKeywords, keyword,
                                           pendingBlogResult[1], "App"))
              /\ lastFi' = NoFi
              /\ lastSearch' = NoSearch
  /\ UNCHANGED <<keyword, blogResult, pendingBlogResult, error, autoStartRef, effectsPending,
                 pexelsConfigured, digest, lastTitle, cite, genCalls, pxCalls, lastGen>>

BlogResultOf(pending, post, imageKeywords) ==
  [title |-> pending.title, post |-> post, tags |-> pending.tags,
   imageKeywords |-> imageKeywords, originalPost |-> pending.post]

\* handleImageConfirm after 'await fetchAndInjectImages': the try continuation,
\* or the catch block when the call threw
handleImageConfirmResume ==
  /\ \E c \in 1..Len(fiCalls) :
       LET call == fiCalls[c]
       IN  /\ call.pc = "done"
           /\ call.caller = "App"
           /\ blogResult' =
                <<BlogResultOf(call.pending,
                               IF call.threw THEN call.pending.post ELSE call.out.post,
                               call.imageKeywords)>>
           /\ lastFi' = FiRecord(call)
           /\ fiCalls' = RemoveAt(fiCalls, c)
  /\ pendingBlogResult' = <<>>
  /\ generationPhase' = "complete"
  /\ UNCHANGED <<keyword, error, autoStartRef, effectsPending, pexelsConfigured, digest, lastTitle, cite, genCalls,
                 pxCalls, lastGen, lastSearch>>

handleImageSkip ==
  /\ effectsPending = 0
  /\ EditorShown
  /\ IF pendingBlogResult = <<>>
       THEN UNCHANGED <<blogResult, pendingBlogResult, generationPhase>>
       ELSE /\ blogResult' =
                 <<BlogResultOf(pendingBlogResult[1], pendingBlogResult[1].post, <<>>)>>
            /\ pendingBlogResult' = <<>>
            /\ generationPhase' = "complete"
  /\ UNCHANGED <<keyword, error, autoStartRef, effectsPending, pexelsConfigured, digest, lastTitle, cite, genCalls,
                 fiCalls, pxCalls, lastGen, lastFi, lastSearch>>

\* s.replace(/<figure[\s\S]*?<\/figure>/gi, '')
RECURSIVE RemoveAllPairs(_, _, _)
RemoveAllPairs(s, open, close) ==
  LET m == MatchPair(s, open, close)
  IN  IF ~m.found THEN s
      ELSE SubSeq(s, 1, m.first - 1)
             \o RemoveAllPairs(SubSeq(s, m.last + 1, Len(s)), open, close)

\* s.replace(/\s*\n\s*\n\s*/g, '\n'): a whitespace run that holds two newlines
\* or more becomes one newline
RECURSIVE CollapseBlankLines(_)
CollapseBlankLines(s) ==
  IF s = <<>> THEN <<>>
  ELSE IF Head(s) \notin Whitespace THEN <<Head(s)>> \o CollapseBlankLines(Tail(s))
  ELSE LET rest == TrimStart(s)
           run == SubSeq(s, 1, Len(s) - Len(rest))
       IN  IF Cardinality(Positions(run, "\n")) >= 2
             THEN <<"\n">> \o CollapseBlankLines(rest)
             ELSE run \o CollapseBlankLines(rest)

\* blogResult.originalPost || blogResult.post.replace(...).replace(...).trim()
OriginalPostOf(b) ==
  IF b.originalPost # <<>> THEN b.originalPost
  ELSE Trim(CollapseBlankLines(RemoveAllPairs(b.post, "<figure>", "</figure>")))

\* onRegenerateImages is handed to BlogPostDisplay only when blogResult has image keywords
handleRegenerateImages ==
  /\ effectsPending = 0
  /\ ResultShown
  /\ Len(blogResult[1].imageKeywords) > 0
  /\ pendingBlogResult' =
       <<[title |-> blogResult[1].title, post |-> OriginalPostOf(blogResult[1]),
          tags |-> blogResult[1].tags, imageKeywords |-> blogResult[1].imageKeywords]>>
  /\ blogResult' = <<>>
  /\ generationPhase' = "awaitingImageConfirmation"
  /\ UNCHANGED <<keyword, error, autoStartRef, effectsPending, pexelsConfigured, digest, lastTitle, cite, genCalls,
                 fiCalls, pxCalls, lastGen, lastFi, lastSearch>>

\* raw model responses for the App: complete, without markers, and empty
AppTexts ==
  { <<"[TITLE]", "T", "[/TITLE]", "[POST]", "<p>", "x", "</p>", "<p>", "x", "</p>",
      "[/POST]", "[IMAGE_KEYWORDS]", "k1", ",", "k2", "[/IMAGE_KEYWORDS]">>,
    <<"x", "</p>", "x", "</p>", "x", "</p>", "x">>,
    <<>> }

InitAppSpec ==
  /\ InitApp
  /\ effectsPending \in 1..MaxEffectRuns
  /\ pexelsConfigured \in BOOLEAN

NextApp ==
  \/ AutoStartEffect
  \/ SetKeyword
  \/ handleGenerateClick
  \/ ModelResolves(AppTexts)
  \/ ModelRejects
  \/ handleImageConfirm
  \/ SearchReturn(InjectResponses)
  \/ handleImageConfirmResume
  \/ handleImageSkip
  \/ handleRegenerateImages

SpecApp == InitAppSpec /\ [][NextApp]_vars

\* searches whose outcome decides how the image step ends: photos found, nothing
\* found, a failed exchange
LiveResponses ==
  { [kind |-> "ok", photos |-> <<PhotoPool[1]>>],
    [kind |-> "ok", photos |-> <<>>],
    [kind |-> "notOk", photos |-> <<>>] }

NextAppLive ==
  \/ AutoStartEffect
  \/ SetKeyword
  \/ handleGenerateClick
  \/ ModelResolves(AppTexts)
  \/ ModelRejects
  \/ handleImageConfirm
  \/ SearchReturn(LiveResponses)
  \/ handleImageConfirmResume
  \/ handleImageSkip
  \/ handleRegenerateImages

\* Every awaited model call and every awaited image search settles, and the
\* continuation of a settled fetchAndInjectImages call runs.
AppFairness ==
  /\ WF_vars(ModelResolves(AppTexts) \/ ModelRejects)
  /\ WF_vars(SearchReturn(LiveResponses))
  /\ WF_vars(handleImageConfirmResume)

SpecAppLive == InitAppSpec /\ [][NextAppLive]_vars /\ AppFairness

----------------------------------------------------------------------------
(* Claims on generateBlogPost, checked under SpecGen *)

\* the marker pair occurs in the text: an opening marker with a closing one after it
PairOccurs(text, open, close) ==
  \E i, j \in 1..Len(text) : i < j /\ text[i] = open /\ text[j] = close

Returned == lastGen.called /\ ~lastGen.threw

\* C1: whenever generateBlogPost returns, whatever the raw text and the request
\* keyword were, the returned title is a non-empty string.
C1_TitleNeverEmpty == Returned => lastGen.value.title # <<>>

\* C1 witness: a response without a TITLE pair but with another marker pair, so
\* that the title came out of the fallback cascade, and one with no marker at all.
C1_Witness ==
  /\ Returned
  /\ ~PairOccurs(lastGen.outcome.text, "[TITLE]", "[/TITLE]")
  /\ PairOccurs(lastGen.outcome.text, "[TAGS]", "[/TAGS]")
  /\ lastGen.value.title = generateFallbackTitle(lastGen.keyword, lastGen.value.post)

\* C2: the no-schema path is taken exactly when none of the TITLE, POST and TAGS
\* pairs occurs in the raw text; on it the body is the raw text unchanged and the
\* title is the request keyword.
C2_NoSchemaPath ==
  Returned =>
    LET text == lastGen.outcome.text
        none == /\ ~PairOccurs(text, "[TITLE]", "[/TITLE]")
                /\ ~PairOccurs(text, "[POST]", "[/POST]")
                /\ ~PairOccurs(text, "[TAGS]", "[/TAGS]")
    IN  /\ lastGen.noSchema <=> none
        /\ none => /\ lastGen.value.post = text
                   /\ lastGen.value.title = lastGen.keyword

\* C2 witness: an unmarked, non-empty text with surrounding whitespace went
\* through the no-schema path
C2_Witness ==
  /\ Returned
  /\ lastGen.noSchema
  /\ lastGen.outcome.text # <<>>
  /\ Trim(lastGen.outcome.text) # lastGen.outcome.text
  /\ lastGen.value.post = lastGen.outcome.text

\* C3 as stated: generateBlogPost throws exactly when the model invocation
\* failed, and then raises one error whose message is the localized prefix
\* followed by the upstream message.
C3_Original ==
  lastGen.called =>
    /\ lastGen.threw <=> lastGen.outcome.kind # "text"
    /\ lastGen.outcome.kind # "text" =>
         lastGen.errors = << <<ErrorPrefix>> \o lastGen.outcome.message >>

\* C3 amended: generateBlogPost throws exactly when the model invocation failed;
\* it then raises one error, whose message is the localized prefix followed by
\* the upstream message when the failure is an Error, and the fixed
\* unknown-error message when the rejected value is not an Error.
C3_FailsOnlyOnInvocationFailure ==
  lastGen.called =>
    /\ lastGen.threw <=> lastGen.outcome.kind # "text"
    /\ lastGen.outcome.kind = "text" => lastGen.errors = <<>>
    /\ lastGen.outcome.kind = "error" =>
         lastGen.errors = << <<ErrorPrefix>> \o lastGen.outcome.message >>
    /\ lastGen.outcome.kind = "nonError" =>
         lastGen.errors = << <<UnknownErrorMessage>> >>

\* C3 witness: an invocation that failed with an Error carrying a message
C3_Witness ==
  /\ lastGen.called
  /\ lastGen.threw
  /\ lastGen.outcome.kind = "error"
  /\ lastGen.outcome.message # <<>>
  /\ generationPhase = "idle"


----------------------------------------------------------------------------
(* Direct calls of the title resolution functions *)

\* lines of a raw text: words of 10, 11, 149 and 150 characters, alone, padded or
\* with inline tags, a bare marker, a bare tag, a marker followed by a word
TitleLines ==
  { <<"w10">>, <<"w11">>, <<"w149">>, <<"w150">>, <<"x">>,
    <<"[TITLE]">>, <<"<p>">>, <<"[TITLE]", "w11">>,
    <<"<b>", "w11", "</b>">>, <<"w11", "<b>", "</b>">>, <<"w10", "<b>", "</b>">>,
    <<"w149", "<b>", "</b>">>, <<" ", "w11", " ">> }

TitleRawTexts ==
  UNION {{Join(ls, "\n") : ls \in [1..n -> TitleLines]} : n \in 0..MaxChunks}

\* elements of a POST body: headings with plain, nested, padded, tag-only, blank
\* and two-line content, and a paragraph
HeadingChunks ==
  { <<"<h1>", "A", "</h1>">>,
    <<"<h1>", "<b>", "B", "</b>", "</h1>">>,
    <<"<h1>", " ", "A", " ", "</h1>">>,
    <<"<h1>", "<b>", "</b>", "</h1>">>,
    <<"<h1>", " ", "</h1>">>,
    <<"<h1>", "A", "\n", "B", "</h1>">>,
    <<"<h2>", "S", "</h2>">>,
    <<"<h2>", "<b>", "</b>", "</h2>">>,
    <<"<p>", "x", "</p>">> }

TitlePosts ==
  UNION {{Concat(cs) : cs \in [1..n -> HeadingChunks]} : n \in 0..MaxChunks}

\* paragraphs that hold the words generateFallbackTitle looks for
TopicChunks ==
  { <<"<p>", w, "</p>">> :
      w \in {"tuja", "sijang", "gisul", "hyeoksin", "ribyu", "jangjeom", "danjeom", "x"} }

TopicPosts ==
  UNION {{Concat(cs) : cs \in [1..n -> TopicChunks]} : n \in 0..MaxChunks}

\* the arguments of the calls: every raw text with a few bodies, every body with a
\* few raw texts
ExtractArgs ==
  (TitleRawTexts \X {<<>>, <<"<p>", "x", "</p>">>, <<"<h1>", "<b>", "</b>", "</h1>">>})
    \cup ({<<>>, <<"w11">>, <<"x">>} \X TitlePosts)

TitleCall(fn, kw, rawText, post, called, result) ==
  [called |-> called, fn |-> fn, keyword |-> kw, rawText |-> rawText, post |-> post,
   result |-> result]

ExtractTitleCall ==
  /\ ~lastTitle.called
  /\ lastTitle.fn = "extractTitleFromContent"
  /\ lastTitle' = [lastTitle EXCEPT
                     !.called = TRUE,
                     !.result = extractTitleFromContent(lastTitle.rawText, lastTitle.post)]
  /\ UNCHANGED <<appVars, pexelsConfigured, digest, cite, genCalls, fiCalls, pxCalls, lastGen, lastFi,
                 lastSearch>>

FallbackTitleCall ==
  /\ ~lastTitle.called
  /\ lastTitle.fn = "generateFallbackTitle"
  /\ lastTitle' = [lastTitle EXCEPT
                     !.called = TRUE,
                     !.result = generateFallbackTitle(lastTitle.keyword, lastTitle.post)]
  /\ UNCHANGED <<appVars, pexelsConfigured, digest, cite, genCalls, fiCalls, pxCalls, lastGen, lastFi,
                 lastSearch>>

InitTitle ==
  /\ keyword = <<>>
  /\ generationPhase = "idle"
  /\ blogResult = <<>>
  /\ pendingBlogResult = <<>>
  /\ error = <<>>
  /\ autoStartRef = FALSE
  /\ effectsPending = 0
  /\ pexelsConfigured = FALSE
  /\ genCalls = <<>>
  /\ fiCalls = <<>>
  /\ pxCalls = <<>>
  /\ lastGen = NoGen
  /\ lastFi = NoFi
  /\ lastSearch = NoSearch
  /\ cite = NoCite
  /\ digest = NoDigest
  /\ \/ \E a \in ExtractArgs :
          lastTitle = TitleCall("extractTitleFromContent", <<>>, a[1], a[2], FALSE, <<>>)
     \/ \E kw \in Keywords, post \in TopicPosts :
          lastTitle = TitleCall("generateFallbackTitle", kw, <<>>, post, FALSE, <<>>)

NextTitle ==
  \/ ExtractTitleCall
  \/ FallbackTitleCall

SpecTitle == InitTitle /\ [][NextTitle]_vars

----------------------------------------------------------------------------
(* Generation with raw responses that exercise the title cascade *)

ResolveTitleParts ==
  { <<>>, <<"[TITLE]", " ", "[/TITLE]">>, <<"[TITLE]", "T", "[/TITLE]">> }

ResolveBodies ==
  { <<"<p>", "x", "</p>">>,
    <<"<h1>", "A", "</h1>", "<p>", "x", "</p>">>,
    <<"<h1>", "<b>", "B", "</b>", "</h1>", "<h2>", "S", "</h2>">>,
    <<"<h1>", "<b>", "</b>", "</h1>", "<h2>", "S", "</h2>">>,
    <<"<h1>", "<b>", "</b>", "</h1>">>,
    <<"<h1>", " ", "</h1>", "<h1>", "A", "</h1>">>,
    <<"<h1>", " ", "</h1>", "<h2>", "S", "</h2>">>,
    <<"<h2>", "S", "</h2>", "<h1>", "A", "</h1>">>,
    <<"<p>", "gisul", "</p>">> }

\* no body, a body between POST markers, a body without markers
ResolvePostParts ==
  {<<>>} \cup ResolveBodies \cup {<<"[POST]">> \o b \o <<"[/POST]">> : b \in ResolveBodies}

ResolveTagParts == { <<>>, <<"[TAGS]", "a", ",", "b", "[/TAGS]">> }

ResolveLineParts == { <<>>, <<"\n", "w11", "\n">>, <<"\n", "w10", "\n">> }

ResolveTexts ==
  { t \o p \o g \o l : t \in ResolveTitleParts, p \in ResolvePostParts,
                       g \in ResolveTagParts, l \in ResolveLineParts }

NextResolve ==
  \/ AutoStartEffect
  \/ SetKeyword
  \/ handleGenerateClick
  \/ ModelResolves(ResolveTexts)
  \/ ModelRejects

SpecResolve == InitGen /\ [][NextResolve]_vars

----------------------------------------------------------------------------
(* Generation with raw responses that carry all the sections *)

\* list elements, with a repeated and a blank one among them
ElemPool == <<"a", "b", "a", " ", "c", "d", "e", "f", "g", "h", "i", "j", "k", "l">>

ListOf(n) == Join([i \in 1..n |-> <<ElemPool[i]>>], ",")

\* inner texts of a list section: padded, and lists of as many elements as the
\* tag limit and of more (one element of the pool is blank)
ListInners ==
  { <<" ", "a", " ", ",", " ", "b", " ">>, ListOf(MaxTags + 1), ListOf(MaxTags + 2),
    ListOf(MaxTags + 4) }

Section(open, inner, close) == <<open>> \o inner \o <<close>>

SectionTitleParts ==
  { Section("[TITLE]", inner, "[/TITLE]") :
      inner \in { <<"T">>, <<" ", "T", "\n">>, <<"T", "[/TITLE]", "[TITLE]", "U">> } }

SectionPostParts ==
  { Section("[POST]", inner, "[/POST]") :
      inner \in { <<"\n", "<p>", "x", "</p>", "\n">> } }

SectionTagParts ==
  {<<>>} \cup { Section("[TAGS]", inner, "[/TAGS]") : inner \in ListInners }

SectionKeywordParts ==
  {<<>>} \cup { Section("[IMAGE_KEYWORDS]", inner, "[/IMAGE_KEYWORDS]") :
                  inner \in {ListOf(2), ListOf(MaxTags + 2)} }

SectionSourceParts ==
  {<<>>} \cup { Section("[SOURCES]", inner, "[/SOURCES]") :
                  inner \in { <<"\n", "-", " ", "s1", "\n", "1.", " ", "s2", "\n">>,
                              <<"s1", "\n", " ", "\n", "*", " ", "s2">> } }

\* the sections in the prompt's order and in the reverse order
SectionTexts ==
  UNION { { t \o p \o g \o k \o r, r \o k \o g \o p \o t } :
            <<t, p, g, k, r>> \in SectionTitleParts \X SectionPostParts \X SectionTagParts
                                    \X SectionKeywordParts \X SectionSourceParts }

NextSections ==
  \/ AutoStartEffect
  \/ SetKeyword
  \/ handleGenerateClick
  \/ ModelResolves(SectionTexts)
  \/ ModelRejects

SpecSections == InitGen /\ [][NextSections]_vars

----------------------------------------------------------------------------
(* Citation Resolver.  Its code is not part of the sources at hand; it is     *)
(* modelled from section 4.3 of the specification.                            *)

\* the resolver looks at the first 5 source titles
SourceTitleCap == 5

\* hyphen, en dash, em dash
Separators == {"-", "en-dash", "em-dash"}

Max(S) == CHOOSE x \in S : \A y \in S : x >= y

\* the segment after the last separator of a source title, <<>> without separator
OutletName(title) ==
  LET seps == {i \in 1..Len(title) : title[i] \in Separators}
  IN  IF seps = {} THEN <<>> ELSE Trim(SubSeq(title, Max(seps) + 1, Len(title)))

\* the static table of outlet names and their domains (Yonhap stands for the
\* Korean name of the agency)
ExpectedDomains(outlet) ==
  CASE outlet = <<"Yonhap">> -> { <<"yna", ".co.kr">> }
    [] outlet = <<"KBS">> -> { <<"news.", "kbs", ".co.kr">>, <<"kbs", ".co.kr">> }
    [] OTHER -> {}

IsSubstring(w, s) ==
  \E i \in 0..(Len(s) - Len(w)) : SubSeq(s, i + 1, i + Len(w)) = w

\* the label contains, or is contained by, one of the domains
LabelMatches(label, domains) ==
  \E d \in domains : IsSubstring(d, label) \/ IsSubstring(label, d)

\* index of the first unconsumed chunk whose label matches, 0 if there is none
DomainMatch(title, chunks, used) ==
  LET ok == {i \in 1..Len(chunks) :
               ~used[i] /\ LabelMatches(chunks[i].label, ExpectedDomains(OutletName(title)))}
  IN  IF ok = {} THEN 0 ELSE Min(ok)

\* mutant of PositionalMatch: the consumed flag is not looked at
PositionalMatch_IgnoresUsed(index, chunks, used) ==
  IF index <= Len(chunks) THEN index ELSE 0

\* the chunk at the position of the source title, if it is unconsumed; else 0
PositionalMatch(index, chunks, used) ==
  IF index <= Len(chunks) /\ ~used[index] THEN index ELSE 0

\* the two strategies in order
BindChunk(index, title, chunks, used) ==
  LET byDomain == DomainMatch(title, chunks, used)
      byPosition == PositionalMatch(index, chunks, used)
  IN  IF byDomain # 0 THEN [chunk |-> byDomain, how |-> "domain"]
      ELSE IF byPosition # 0 THEN [chunk |-> byPosition, how |-> "position"]
      ELSE [chunk |-> 0, how |-> "none"]

\* mutant of ReferenceItem: the URL of the bound chunk is not validated
ReferenceItem_Unvalidated(title, binding, chunks) ==
  IF binding.chunk # 0
    THEN [text |-> title, linked |-> TRUE, href |-> chunks[binding.chunk].url]
    ELSE [text |-> title, linked |-> FALSE, href |-> <<>>]

\* one item of the reference list: a hyperlink when a chunk with a non-empty
\* URL is bound, plain text otherwise
ReferenceItem(title, binding, chunks) ==
  IF binding.chunk # 0 /\ chunks[binding.chunk].url # <<>>
    THEN [text |-> title, linked |-> TRUE, href |-> chunks[binding.chunk].url]
    ELSE [text |-> title, linked |-> FALSE, href |-> <<>>]

\* the resolver runs only if there are source titles and citation chunks
ResolverRuns == cite.sourceTitles # <<>> /\ cite.citationChunks # <<>>

CappedTitles == Slice(cite.sourceTitles, SourceTitleCap)

\* the resolver handles the next source title
ResolveSourceTitle ==
  /\ ResolverRuns
  /\ Len(cite.bound) < Len(CappedTitles)
  /\ LET index == Len(cite.bound) + 1
         binding == BindChunk(index, CappedTitles[index], cite.citationChunks, cite.used)
     IN  cite' = [cite EXCEPT
                    !.bound = Append(cite.bound, binding),
                    !.used = IF binding.chunk = 0 THEN cite.used
                             ELSE [cite.used EXCEPT ![binding.chunk] = TRUE]]
  /\ UNCHANGED <<appVars, pexelsConfigured, digest, lastTitle, genCalls, fiCalls, pxCalls, lastGen,
                 lastFi, lastSearch>>

\* the reference list is rendered once every source title is handled
RenderReferences ==
  /\ ResolverRuns
  /\ Len(cite.bound) = Len(CappedTitles)
  /\ ~cite.rendered
  /\ cite' = [cite EXCEPT
                !.rendered = TRUE,
                !.items = [a \in 1..Len(CappedTitles) |->
                             ReferenceItem(CappedTitles[a], cite.bound[a], cite.citationChunks)]]
  /\ UNCHANGED <<appVars, pexelsConfigured, digest, lastTitle, genCalls, fiCalls, pxCalls, lastGen,
                 lastFi, lastSearch>>

SourceTitlePool ==
  { <<"Headline", " ", "-", " ", "Yonhap">>,
    <<"Head", "-", "line", " ", "em-dash", " ", "KBS">>,
    <<"Headline", " ", "-", " ", "Blog">>,
    <<"Headline">> }

ChunkPool ==
  { [url |-> <<"u1">>, label |-> <<"www.", "yna", ".co.kr">>],
    [url |-> <<"u2">>, label |-> <<"kbs">>],
    [url |-> <<"u3">>, label |-> <<"example.com">>],
    [url |-> <<>>, label |-> <<"yna", ".co.kr">>] }

InitCite ==
  /\ keyword = <<>>
  /\ generationPhase = "idle"
  /\ blogResult = <<>>
  /\ pendingBlogResult = <<>>
  /\ error = <<>>
  /\ autoStartRef = FALSE
  /\ effectsPending = 0
  /\ pexelsConfigured = FALSE
  /\ genCalls = <<>>
  /\ fiCalls = <<>>
  /\ pxCalls = <<>>
  /\ lastGen = NoGen
  /\ lastFi = NoFi
  /\ lastSearch = NoSearch
  /\ lastTitle = NoTitle
  /\ digest = NoDigest
  /\ \E n \in 0..MaxSourceTitles, m \in 0..MaxCitationChunks :
       \E titles \in [1..n -> SourceTitlePool], chunks \in [1..m -> ChunkPool] :
         cite = [sourceTitles |-> titles, citationChunks |-> chunks,
                 used |-> [i \in 1..m |-> FALSE], bound |-> <<>>, rendered |-> FALSE,
                 items |-> <<>>]

NextCite ==
  \/ ResolveSourceTitle
  \/ RenderReferences

SpecCite == InitCite /\ [][NextCite]_vars

----------------------------------------------------------------------------
(* Claims on media injection, checked under SpecInject *)

Count(s, t) == Cardinality(Positions(s, t))

\* the fragments of the input body and of the returned body
InFrags == Split(lastFi.post, "</p>")
OutFrags == Split(lastFi.out.post, "</p>")

\* input fragment k, empty beyond the last one
InFrag(k) == IF k <= Len(InFrags) THEN InFrags[k] ELSE <<>>
OutFrag(k) == IF k <= Len(OutFrags) THEN OutFrags[k] ELSE <<>>

\* number of figure blocks the call added
Inserted == Count(lastFi.out.post, "<figure>") - Count(lastFi.post, "<figure>")

\* number of figure blocks added directly after the k-th fragment
InsertedAfter(k) == Count(OutFrag(k + 1), "<figure>") - Count(InFrag(k + 1), "<figure>")

\* the three target indices floor(0.2n), floor(0.5n), floor(0.8n)
Targets(n) == {n \div 5, n \div 2, (4 * n) \div 5}

\* insertion points of a body of n fragments
CandidatePoints(n) == IF n > 3 THEN Targets(n) \cap 1..n ELSE {1}

Smaller(a, b) == IF a < b THEN a ELSE b

\* C4: the number of figures inserted never exceeds min(number of assets, number
\* of candidate insertion points), and no fragment gets more than one figure.
C4_FigureCountBounded ==
  lastFi.called =>
    /\ Inserted <= Smaller(Len(lastFi.images), Cardinality(CandidatePoints(Len(InFrags))))
    /\ \A k \in 0..Len(OutFrags) : InsertedAfter(k) <= 1

\* C4 witness: a body of 4 fragments, whose first target index is 0, got 2 figures
\* out of 3 assets
C4_Witness ==
  /\ lastFi.called
  /\ Len(InFrags) = 4
  /\ Len(lastFi.images) = 3
  /\ Inserted = 2

\* rank of target k among the targets that are fragment indices
Rank(k, n) == Cardinality({t \in Targets(n) \cap 1..n : t <= k})

\* C5: for n > 3 fragments and at least 3 assets, a figure follows the k-th
\* fragment exactly when k is floor(0.2n), floor(0.5n) or floor(0.8n), the j-th
\* figure is built from the j-th asset, and ten paragraphs with three assets get
\* exactly three figures, after paragraphs 2, 5 and 8.
C5_ProportionalPlacement ==
  (lastFi.called /\ Len(InFrags) > 3 /\ Len(lastFi.images) >= 3) =>
    LET n == Len(InFrags)
    IN  /\ lastFi.out.imagesFound
        /\ OutFrag(1) = InFrag(1)
        /\ \A k \in 1..n :
             IF k \in Targets(n)
               THEN OutFrag(k + 1) = imgHtml(lastFi.images[Rank(k, n)]) \o InFrag(k + 1)
               ELSE OutFrag(k + 1) = InFrag(k + 1)
        /\ lastFi.post = ParaBody(10) =>
             /\ Inserted = 3
             /\ {k \in 1..n : InsertedAfter(k) = 1} = {2, 5, 8}

\* C5 witness: the ten-paragraph body, injected with three assets
C5_Witness ==
  /\ lastFi.called
  /\ lastFi.post = ParaBody(10)
  /\ Len(lastFi.images) = 3
  /\ Inserted = 3

\* C6: for n <= 3 fragments and a non-empty asset list exactly one figure, built
\* from the first asset, is put right after the first paragraph; no other asset
\* is used and imagesFound is true.
C6_ShortBodyOneFigure ==
  (lastFi.called /\ Len(InFrags) <= 3 /\ lastFi.images # <<>>) =>
    LET ends == Positions(lastFi.post, "</p>")
        cut == IF ends = {} THEN Len(lastFi.post) ELSE Min(ends)
        first == IF ends = {} THEN lastFi.post \o <<"</p>">> ELSE SubSeq(lastFi.post, 1, cut)
    IN  /\ lastFi.out.imagesFound
        /\ Inserted = 1
        /\ lastFi.out.post =
             first \o imgHtml(lastFi.images[1]) \o SubSeq(lastFi.post, cut + 1, Len(lastFi.post))

\* C6 witness: a two-paragraph body and more than one asset
C6_Witness ==
  /\ lastFi.called
  /\ lastFi.post = ParaBody(2)
  /\ Len(lastFi.images) > 1
  /\ Inserted = 1

\* no asset was available to the call: no API key, or every search came back empty
NoAssetAvailable ==
  \/ ~lastFi.configured
  \/ /\ Len(lastFi.results) = Len(lastFi.issued)
     /\ \A j \in 1..Len(lastFi.results) : lastFi.results[j] = <<>>

\* C7: with no asset available the body is returned unchanged, imagesFound is
\* false and nothing is raised, also for a body that already holds figures.
C7_NoAssetsNoChange ==
  (lastFi.called /\ NoAssetAvailable) =>
    /\ lastFi.out.post = lastFi.post
    /\ ~lastFi.out.imagesFound
    /\ ~lastFi.threw

\* C7 witness: an already injected body, every keyword and the fallback searched
\* without result
C7_Witness ==
  /\ lastFi.called
  /\ lastFi.configured
  /\ Count(lastFi.post, "<figure>") > 0
  /\ Len(lastFi.imageKeywords) = 2
  /\ Len(lastFi.issued) = 3
  /\ NoAssetAvailable
  /\ lastFi.out.post = lastFi.post

\* C8: searches follow the order of the supplied keywords and stop at the first
\* non-empty result; the request keyword is searched last, and only when every
\* supplied keyword came back empty; the assets used are those of the first
\* non-empty result.
C8_OrderedEarlyExit ==
  (lastFi.called /\ lastFi.configured) =>
    LET kws == lastFi.imageKeywords
        q == lastFi.issued
        r == lastFi.results
        m == Len(q)
    IN  /\ Len(r) = m
        /\ m >= 1
        /\ m <= Len(kws) + 1
        /\ \A j \in 1..m : j <= Len(kws) => q[j] = kws[j]
        /\ \A j \in 1..(m - 1) : r[j] = <<>>
        /\ m = Len(kws) + 1 => q[m] = lastFi.fallbackKeyword
        /\ m <= Len(kws) => r[m] # <<>>
        /\ lastFi.images = r[m]
        /\ lastFi.out.imagesFound <=> r[m] # <<>>

\* C8 witness: two keywords came back empty and the fallback keyword found photos
C8_Witness ==
  /\ lastFi.called
  /\ lastFi.configured
  /\ Len(lastFi.imageKeywords) = 2
  /\ Len(lastFi.issued) = 3
  /\ lastFi.issued[3] = lastFi.fallbackKeyword
  /\ lastFi.images # <<>>

----------------------------------------------------------------------------
(* Claims on the search policy of a pipeline run, checked under SpecApp *)

RECURSIVE InFlight(_)
InFlight(calls) ==
  IF calls = <<>> THEN 0 ELSE Len(Head(calls).inflight) + InFlight(Tail(calls))

\* C9: at most one image search is in flight at any time, and while one is in
\* flight the model invocation of the run has completed.
C9_OneSearchInFlight ==
  /\ InFlight(fiCalls) <= 1
  /\ InFlight(fiCalls) = 1 => /\ genCalls = <<>>
                              /\ lastGen.called
                              /\ ~lastGen.threw

\* C9 witness: the fallback search is in flight after two keyword searches returned
C9_Witness ==
  /\ Len(fiCalls) = 1
  /\ fiCalls[1].pc = "fallback"
  /\ Len(fiCalls[1].results) = 2
  /\ InFlight(fiCalls) = 1

----------------------------------------------------------------------------
(* Claims on fetchImagesFromPexels, checked under SpecSearch *)

\* C10: fetchImagesFromPexels never raises; without an API key, on a response
\* that is not OK and on a failed request or decoding it returns the empty
\* sequence, otherwise the photos in the order received.
C10_SearchNeverRaises ==
  lastSearch.called =>
    /\ ~lastSearch.raised
    /\ lastSearch.photos =
         IF lastSearch.configured /\ lastSearch.response.kind = "ok"
           THEN lastSearch.response.photos
           ELSE <<>>
    /\ ~lastSearch.configured => ~lastSearch.requested

\* C10 witness: a search whose HTTP response was not OK returned
C10_Witness ==
  /\ lastSearch.called
  /\ lastSearch.configured
  /\ lastSearch.response.kind = "notOk"
  /\ lastSearch.photos = <<>>

----------------------------------------------------------------------------
(* Claims on the title resolution functions, checked under SpecTitle *)

ExtractCalled == lastTitle.called /\ lastTitle.fn = "extractTitleFromContent"

\* the text of the first hN element of the body with its tags removed, <<>> when
\* the body holds no such element
HeadingText(post, open, close) ==
  LET m == MatchHeading(post, open, close)
  IN  IF m.found THEN StripTags(Trim(m.inner)) ELSE <<>>

NonBlank(s) == Trim(s) # <<>>

\* C12: heading extraction returns the text of the first h1 only if it is
\* non-empty with its tags removed; when the first h1 is absent or its
\* tag-stripped text is empty, the non-empty tag-stripped text of the first h2 is
\* returned.
C12_HeadingExtraction ==
  ExtractCalled =>
    LET h1 == HeadingText(lastTitle.post, "<h1>", "</h1>")
        h2 == HeadingText(lastTitle.post, "<h2>", "</h2>")
    IN  /\ NonBlank(h1) => lastTitle.result = h1
        /\ (~NonBlank(h1) /\ NonBlank(h2)) => lastTitle.result = h2

\* the trimmed, non-empty lines of the raw text
RawLines(rawText) == FilterNonEmpty(MapTrim(Split(rawText, "\n")))

\* the body holds no h1 or h2 element with anything between its tags
NoHeadingContent(post) ==
  /\ ~NonBlank(MatchHeading(post, "<h1>", "</h1>").inner)
  /\ ~NonBlank(MatchHeading(post, "<h2>", "</h2>").inner)

\* the first of the lines whose index is in ok, with its tags removed; <<>> if
\* ok is empty
FirstLine(lines, ok) ==
  IF ok = {} THEN <<>> ELSE Trim(StripTags(lines[Min(ok)]))

BareLine(line) == Len(line) = 1 /\ line[1] \in MarkerTokens \cup HtmlTags

\* the candidate lines with bounds included: tag-stripped length 10 to 150
AcceptsInclusive(lines) ==
  {i \in 1..Len(lines) :
     /\ ~BareLine(lines[i])
     /\ StrLen(Trim(StripTags(lines[i]))) >= 10
     /\ StrLen(Trim(StripTags(lines[i]))) <= 150}

\* the candidate lines with bounds excluded
AcceptsExclusive(lines) ==
  {i \in 1..Len(lines) :
     /\ ~BareLine(lines[i])
     /\ lines[i][1] \notin HtmlTags
     /\ StrLen(lines[i]) > 10
     /\ StrLen(lines[i]) < 150
     /\ StrLen(Trim(StripTags(lines[i]))) > 10}

\* C13 as stated: the line scan returns the first line that is neither a bare
\* marker nor a single tag and whose tag-stripped length is between 10 and 150,
\* both bounds included.
C13_Original ==
  (ExtractCalled /\ NoHeadingContent(lastTitle.post)) =>
    lastTitle.result =
      FirstLine(RawLines(lastTitle.rawText), AcceptsInclusive(RawLines(lastTitle.rawText)))

\* C13 amended: the line scan returns, with its tags removed, the first line that
\* is neither a bare marker nor a single tag, does not start with a tag, is more
\* than 10 and less than 150 characters long and has more than 10 characters
\* left once its tags are removed; other lines are skipped.
C13_LineScanExclusive ==
  (ExtractCalled /\ NoHeadingContent(lastTitle.post)) =>
    lastTitle.result =
      FirstLine(RawLines(lastTitle.rawText), AcceptsExclusive(RawLines(lastTitle.rawText)))

\* C13 witness: a line of 10 characters was skipped and the line of 11 after it
\* returned
C13_Witness ==
  /\ ExtractCalled
  /\ lastTitle.post = <<>>
  /\ lastTitle.rawText = <<"w10", "\n", "w11">>
  /\ lastTitle.result = <<"w11">>

\* s holds w as a substring
Contains(s, w) ==
  \E i \in 0..(Len(s) - Len(w)) : SubSeq(s, i + 1, i + Len(w)) = w

\* C14: generateFallbackTitle returns, for every keyword and body, a non-empty
\* string that holds the keyword as a substring.
C14_FallbackNonEmpty ==
  (lastTitle.called /\ lastTitle.fn = "generateFallbackTitle") =>
    /\ lastTitle.result # <<>>
    /\ Contains(lastTitle.result, lastTitle.keyword)

\* C14 witness: an empty keyword and a body without any of the topic words
C14_Witness ==
  /\ lastTitle.called
  /\ lastTitle.fn = "generateFallbackTitle"
  /\ lastTitle.keyword = <<>>
  /\ lastTitle.post = <<"<p>", "x", "</p>">>
  /\ lastTitle.result # <<>>

----------------------------------------------------------------------------
(* Claims on the title a generation returns, checked under SpecResolve *)

RawText == lastGen.outcome.text

TitleMarkerMissing == ~PairOccurs(RawText, "[TITLE]", "[/TITLE]")

\* the texts, tags removed, of all h1 elements of a body
H1Texts(post) ==
  { StripTags(Trim(SubSeq(post, i + 1, j - 1))) :
      <<i, j>> \in { p \in Positions(post, "<h1>") \X Positions(post, "</h1>") :
                       /\ p[1] < p[2]
                       /\ \A k \in (p[1] + 1)..(p[2] - 1) : post[k] \notin {"</h1>", "\n"} } }

\* C11 as stated: with the TITLE marker missing and an h1 in the body whose
\* tag-stripped text T is non-empty, the returned title is T.
C11_Original ==
  (Returned /\ TitleMarkerMissing) =>
    LET texts == {T \in H1Texts(lastGen.value.post) : T # <<>>}
    IN  texts # {} => lastGen.value.title \in texts

\* C11 amended: with the TITLE marker missing, a POST or TAGS marker pair present
\* and a first h1 in the body whose tag-stripped text T is non-empty, the
\* returned title is T.
C11_FirstHeadingTitle ==
  (/\ Returned
   /\ TitleMarkerMissing
   /\ \/ PairOccurs(RawText, "[POST]", "[/POST]")
      \/ PairOccurs(RawText, "[TAGS]", "[/TAGS]")) =>
    LET T == HeadingText(lastGen.value.post, "<h1>", "</h1>")
    IN  T # <<>> => lastGen.value.title = T

\* C11 witness: no TITLE marker, a POST body whose h1 nests a tag
C11_Witness ==
  /\ Returned
  /\ TitleMarkerMissing
  /\ lastGen.value.post = <<"<h1>", "<b>", "B", "</b>", "</h1>", "<h2>", "S", "</h2>">>
  /\ lastGen.value.title = <<"B">>

\* the trimmed inner text of the TITLE marker pair, <<>> when it is missing
ExtractedTitle ==
  LET m == MatchPair(RawText, "[TITLE]", "[/TITLE]")
  IN  IF m.found THEN Trim(m.inner) ELSE <<>>

\* what heading extraction produces: the first h1's text, else the first h2's
HeadingResult(post) ==
  LET h1 == HeadingText(post, "<h1>", "</h1>")
      h2 == HeadingText(post, "<h2>", "</h2>")
  IN  IF NonBlank(h1) THEN h1 ELSE IF NonBlank(h2) THEN h2 ELSE <<>>

\* C20: title resolution is an ordered cascade: a non-empty extracted TITLE is
\* returned as is; otherwise the heading, the line scan and the template are
\* used in that order, each only if the stages before it produced nothing.
C20_OrderedCascade ==
  Returned =>
    LET post == lastGen.value.post
        heading == HeadingResult(post)
        scan == FirstLine(RawLines(RawText), AcceptsExclusive(RawLines(RawText)))
    IN  /\ ExtractedTitle # <<>> => lastGen.value.title = ExtractedTitle
        /\ (ExtractedTitle = <<>> /\ ~lastGen.noSchema) =>
             lastGen.value.title =
               IF heading # <<>> THEN heading
               ELSE IF scan # <<>> THEN scan
               ELSE generateFallbackTitle(lastGen.keyword, post)

----------------------------------------------------------------------------
(* Claims on the extracted sections, checked under SpecSections *)

\* the text between the first `open` that has a `close` after it and the nearest
\* such `close`; <<>> when the pair is absent
Enclosed(text, open, close) ==
  LET starts == {i \in 1..Len(text) : text[i] = open /\ \E j \in (i + 1)..Len(text) : text[j] = close}
  IN  IF starts = {} THEN <<>>
      ELSE LET i == CHOOSE x \in starts : \A y \in starts : x <= y
               ends == {j \in (i + 1)..Len(text) : text[j] = close}
               j == CHOOSE x \in ends : \A y \in ends : x <= y
           IN  SubSeq(text, i + 1, j - 1)

\* the pieces of s between its occurrences of the separator, in order
Pieces(s, sep) ==
  LET cuts == {0, Len(s) + 1} \cup {i \in 1..Len(s) : s[i] = sep}
      nth(k) == CHOOSE c \in cuts : Cardinality({d \in cuts : d < c}) = k
  IN  [k \in 1..(Cardinality(cuts) - 1) |-> SubSeq(s, nth(k - 1) + 1, nth(k) - 1)]

\* the trimmed non-blank elements of a comma-separated list, in order
Elements(s) ==
  LET nonBlank == SelectSeq(Pieces(s, ","), NonBlank)
  IN  [k \in 1..Len(nonBlank) |-> Trim(nonBlank[k])]

\* C15: tags and image keywords are the trimmed non-blank comma-separated
\* elements of their marker's inner text, in source order, duplicates kept; the
\* returned tags are exactly the first 10 of them, image keywords are not capped.
C15_ListsNormalised ==
  Returned =>
    LET tagElems == Elements(Enclosed(RawText, "[TAGS]", "[/TAGS]"))
        kwElems == Elements(Enclosed(RawText, "[IMAGE_KEYWORDS]", "[/IMAGE_KEYWORDS]"))
    IN  /\ lastGen.value.tags = SubSeq(tagElems, 1, Smaller(Len(tagElems), 10))
        /\ Len(lastGen.value.tags) <= 10
        /\ lastGen.value.imageKeywords = kwElems

\* C15 witness: 14 tag elements, one blank and one repeated, gave 10 tags, and 12
\* image keyword elements gave 11 keywords
C15_Witness ==
  /\ Returned
  /\ Enclosed(RawText, "[TAGS]", "[/TAGS]") = ListOf(14)
  /\ Len(lastGen.value.tags) = 10
  /\ lastGen.value.tags[1] = lastGen.value.tags[3]
  /\ Len(lastGen.value.imageKeywords) = 11

AllFivePairs ==
  /\ PairOccurs(RawText, "[TITLE]", "[/TITLE]")
  /\ PairOccurs(RawText, "[POST]", "[/POST]")
  /\ PairOccurs(RawText, "[TAGS]", "[/TAGS]")
  /\ PairOccurs(RawText, "[IMAGE_KEYWORDS]", "[/IMAGE_KEYWORDS]")
  /\ PairOccurs(RawText, "[SOURCES]", "[/SOURCES]")

\* a line of a SOURCES section without its bullet or number
SourceTitleOf(line) ==
  LET l == Trim(line)
  IN  IF Len(l) >= 2 /\ l[1] \in {"-", "*", "1.", "2."} /\ l[2] \in {" ", "\n"}
        THEN Trim(SubSeq(l, 2, Len(l)))
        ELSE l

SourceTitlesOf(s) ==
  LET ls == Pieces(Trim(s), "\n")
      kept == SelectSeq(ls, LAMBDA l : SourceTitleOf(l) # <<>>)
  IN  [k \in 1..Len(kept) |-> SourceTitleOf(kept[k])]

----------------------------------------------------------------------------
(* Claims on regeneration of the images, checked under SpecApp *)

\* C17: across image-confirm, image-skip and regenerate-images on one generated
\* document the body handed to media injection is the body generation returned:
\* the pending body, the stored original body and the body of every injection
\* call equal it, and no injection starts from a body that holds figures.
C17_RegenerateFromOriginal ==
  (lastGen.called /\ ~lastGen.threw) =>
    /\ pendingBlogResult # <<>> => pendingBlogResult[1].post = lastGen.value.post
    /\ blogResult # <<>> => blogResult[1].originalPost = lastGen.value.post
    /\ \A c \in 1..Len(fiCalls) :
         /\ fiCalls[c].post = lastGen.value.post
         /\ Count(fiCalls[c].post, "<figure>") = 0

----------------------------------------------------------------------------
(* Claims on the Citation Resolver, checked under SpecCite *)

\* the source titles that chunk i is bound to
BoundTo(i) == {a \in 1..Len(cite.bound) : cite.bound[a].chunk = i}

\* C18: in one resolution pass every citation chunk is bound to at most one
\* source title; a chunk is marked consumed exactly when it is bound, and a
\* consumed chunk is never bound to a later source title.
C18_ChunkBoundOnce ==
  \A i \in 1..Len(cite.citationChunks) :
    /\ Cardinality(BoundTo(i)) <= 1
    /\ cite.used[i] <=> BoundTo(i) # {}

\* C18 witness: the chunk at index 2 was bound by domain to the first source
\* title (outlet Yonhap, label holding yna.co.kr), and the second source title,
\* whose position it is, stayed unbound
C18_Witness ==
  /\ Len(cite.bound) = 2
  /\ Len(cite.citationChunks) >= 2
  /\ OutletName(cite.sourceTitles[1]) = <<"Yonhap">>
  /\ IsSubstring(<<"yna", ".co.kr">>, cite.citationChunks[2].label)
  /\ cite.bound[1] = [chunk |-> 2, how |-> "domain"]
  /\ cite.bound[2].chunk = 0

\* the chunks consumed before source title a is handled
ConsumedBefore(a) == {cite.bound[b].chunk : b \in 1..(a - 1)} \ {0}

\* the unconsumed chunks whose label matches a domain of the outlet of source title a
DomainCandidates(a) ==
  {i \in 1..Len(cite.citationChunks) :
     /\ i \notin ConsumedBefore(a)
     /\ LabelMatches(cite.citationChunks[i].label,
                     ExpectedDomains(OutletName(cite.sourceTitles[a])))}

\* C19: a source title without domain match is bound to the chunk at its own
\* index if that chunk is unconsumed; a source title for which neither strategy
\* yields a URL is rendered as plain unlinked text.
C19_PositionalFallback ==
  /\ \A a \in 1..Len(cite.bound) :
       DomainCandidates(a) = {} =>
         IF a <= Len(cite.citationChunks) /\ a \notin ConsumedBefore(a)
           THEN cite.bound[a] = [chunk |-> a, how |-> "position"]
           ELSE cite.bound[a] = [chunk |-> 0, how |-> "none"]
  /\ cite.rendered =>
       /\ Len(cite.items) = Len(cite.bound)
       /\ \A a \in 1..Len(cite.items) :
            LET c == cite.bound[a].chunk
                url == IF c = 0 THEN <<>> ELSE cite.citationChunks[c].url
            IN  /\ cite.items[a].text = cite.sourceTitles[a]
                /\ cite.items[a].linked <=> url # <<>>
                /\ cite.items[a].href = url

\* C19 witness: an unknown outlet was bound by position, a title without
\* separator found its position consumed and was rendered as plain text
C19_Witness ==
  /\ cite.rendered
  /\ Len(cite.bound) = 2
  /\ OutletName(cite.sourceTitles[1]) = <<"Blog">>
  /\ cite.bound[1] = [chunk |-> 1, how |-> "position"]
  /\ cite.items[1].linked
  /\ cite.bound[2].how = "none"
  /\ ~cite.items[2].linked

----------------------------------------------------------------------------
(* Claims on the reconstructed body, checked under SpecGen *)

\* at least one of the TITLE, POST and TAGS pairs occurs in the text
SomeSchemaPair(text) ==
  \/ PairOccurs(text, "[TITLE]", "[/TITLE]")
  \/ PairOccurs(text, "[POST]", "[/POST]")
  \/ PairOccurs(text, "[TAGS]", "[/TAGS]")

\* the POST section of the text is absent or blank
PostSectionEmpty(text) == ~NonBlank(Enclosed(text, "[POST]", "[/POST]"))

\* the text without any TITLE, TAGS or SOURCES span, trimmed
StripAllSpans(text) ==
  Trim(RemoveAllPairs(RemoveAllPairs(RemoveAllPairs(text, "[TITLE]", "[/TITLE]"),
                                     "[TAGS]", "[/TAGS]"),
                      "[SOURCES]", "[/SOURCES]"))

\* C21: when at least one of TITLE/POST/TAGS is found but POST is empty, the
\* reconstructed body is the raw text with every TITLE, TAGS and SOURCES span
\* removed, trimmed, and no such span remains in the returned body.
C21_ReconstructedBody ==
  (Returned /\ SomeSchemaPair(RawText) /\ PostSectionEmpty(RawText)) =>
    /\ StripAllSpans(RawText) # <<>> => lastGen.value.post = StripAllSpans(RawText)
    /\ ~PairOccurs(lastGen.value.post, "[TITLE]", "[/TITLE]")
    /\ ~PairOccurs(lastGen.value.post, "[TAGS]", "[/TAGS]")
    /\ ~PairOccurs(lastGen.value.post, "[SOURCES]", "[/SOURCES]")

\* C22: when at least one of TITLE/POST/TAGS is found the returned body is never
\* empty; it is the fixed placeholder exactly when POST is empty and stripping
\* the marker spans from the raw text leaves nothing, and then the extracted
\* title and tags are still returned and no error is raised.
C22_PlaceholderBody ==
  (lastGen.called /\ lastGen.outcome.kind = "text" /\ SomeSchemaPair(RawText)) =>
    LET post == lastGen.value.post
        degraded == PostSectionEmpty(RawText) /\ StripAllSpans(RawText) = <<>>
    IN  /\ ~lastGen.threw
        /\ post # <<>>
        /\ post = FailedPostPlaceholder <=> degraded
        /\ degraded =>
             /\ NonBlank(Enclosed(RawText, "[TITLE]", "[/TITLE]")) =>
                  lastGen.value.title = Trim(Enclosed(RawText, "[TITLE]", "[/TITLE]"))
             /\ lastGen.value.tags = Elements(Enclosed(RawText, "[TAGS]", "[/TAGS]"))

----------------------------------------------------------------------------
(* Claims on templated synthesis, checked under SpecTitle *)

\* the words of the body's plain text
PlainWords(post) == {post[i] : i \in {j \in 1..Len(post) : post[j] \notin HtmlTags}}

InvestmentTerms == {"tuja", "sijang"}
TechnologyTerms == {"gisul", "hyeoksin"}
ReviewTerms == {"ribyu", "jangjeom", "danjeom"}

\* C23: templated synthesis classifies the body's plain text in a fixed
\* priority order (investment/market, then technology/innovation, then
\* review/pros-cons terms) and returns the template of the first class that
\* matches; when no class matches it returns the first template of the set.
C23_ClassPriority ==
  (lastTitle.called /\ lastTitle.fn = "generateFallbackTitle") =>
    LET words == PlainWords(lastTitle.post)
        kw == lastTitle.keyword
    IN  lastTitle.result =
          IF words \cap InvestmentTerms # {}
            THEN kw \o <<" sijang donghyang mit tuja jeonmang">>
          ELSE IF words \cap TechnologyTerms # {}
            THEN kw \o <<": gisul hyeoksin-gwa mirae jeonmang">>
          ELSE IF words \cap ReviewTerms # {}
            THEN kw \o <<" simcheung bunseok mit ribyu">>
          ELSE Head(templates(kw))

\* C23 witness: a body that holds a review term before a technology term got
\* the technology template
C23_Witness ==
  /\ lastTitle.called
  /\ lastTitle.fn = "generateFallbackTitle"
  /\ lastTitle.post = <<"<p>", "ribyu", "</p>", "<p>", "gisul", "</p>">>
  /\ lastTitle.keyword = <<"kw">>
  /\ lastTitle.result = <<"kw", ": gisul hyeoksin-gwa mirae jeonmang">>

----------------------------------------------------------------------------
(* Claims on the phases of the App, checked under SpecApp *)

\* C24: in every reachable state of the App at most one of blogResult and
\* pendingBlogResult is set; in phases awaitingImageConfirmation and
\* fetchingImages the pending result is set and the result is not; in phase
\* complete the result is set and the pending one is not; in phases idle and
\* generating neither is set.
C24_PhaseResultSlots ==
  /\ ~(blogResult # <<>> /\ pendingBlogResult # <<>>)
  /\ generationPhase \in {"awaitingImageConfirmation", "fetchingImages"} =>
       pendingBlogResult # <<>> /\ blogResult = <<>>
  /\ generationPhase = "complete" => blogResult # <<>> /\ pendingBlogResult = <<>>
  /\ generationPhase \in {"idle", "generating"} =>
       blogResult = <<>> /\ pendingBlogResult = <<>>

\* C24 witness: a completed document with images was sent back to image
\* confirmation by handleRegenerateImages
C24_Witness ==
  /\ generationPhase = "awaitingImageConfirmation"
  /\ lastFi.called
  /\ lastFi.out.imagesFound
  /\ pendingBlogResult # <<>>
  /\ blogResult = <<>>

\* the requests in flight: model calls and image fetches that have not returned
RequestsInFlight == Len(genCalls) + Len(fiCalls)

\* in a loading phase exactly the request of that phase is in flight, otherwise none
C25_InFlightMatchesPhase ==
  /\ RequestsInFlight <= 1
  /\ generationPhase = "generating" <=> Len(genCalls) = 1
  /\ generationPhase = "fetchingImages" <=> Len(fiCalls) = 1

\* no step starts a request while one is in flight; the mount effect starts a
\* generation only with autoStartRef unset, sets it, and it is never unset; a
\* result is applied only when no other request is left in flight
C25_NoSecondStart ==
  /\ isLoading => Len(genCalls') <= Len(genCalls) /\ Len(fiCalls') <= Len(fiCalls)
  /\ autoStartRef => autoStartRef'
  /\ (effectsPending' < effectsPending /\ Len(genCalls') > Len(genCalls)) =>
       ~autoStartRef /\ autoStartRef'
  /\ (isLoading /\ (pendingBlogResult' # pendingBlogResult \/ blogResult' # blogResult)) =>
       RequestsInFlight' = 0

\* C25: while a generation or an image fetch is in flight no second generation
\* or image fetch can be started by a user action or by the auto-start effect,
\* and the auto-start effect starts at most one generation however often it
\* runs; so no result of an earlier request is applied after a later request
\* was started.
C25_SingleRequest == [](C25_InFlightMatchesPhase) /\ [][C25_NoSecondStart]_vars

\* C25 witness: the mount effect ran and started the generation, its document
\* was confirmed and the image fetch is the one request in flight
C25_Witness ==
  /\ autoStartRef
  /\ effectsPending = 0
  /\ generationPhase = "fetchingImages"
  /\ Len(fiCalls) = 1
  /\ genCalls = <<>>

\* a step on which a generateBlogPost call settles with a failure
GenerationFails == ~lastGen.called /\ lastGen'.called /\ lastGen'.threw

C26_ErrorSteps ==
  /\ GenerationFails =>
       /\ generationPhase' = "idle"
       /\ error' # <<>>
       /\ blogResult' = <<>>
       /\ pendingBlogResult' = <<>>
  /\ (handleGenerateClick /\ Trim(keyword) = <<>>) =>
       /\ error' # <<>>
       /\ UNCHANGED <<generationPhase, blogResult, pendingBlogResult, genCalls>>
  /\ (handleGenerateClick /\ Trim(keyword) # <<>>) =>
       /\ error' = <<>>
       /\ genCalls' = Append(genCalls, [keyword |-> keyword])
  /\ Len(genCalls') > Len(genCalls) => error' = <<>>

----------------------------------------------------------------------------
(* Claims on termination of the loading phases, checked under SpecAppLive *)

\* the image step of the shown document found no image: Pexels is not
\* configured, or every search came back empty or failed
ImageStepFailed ==
  /\ generationPhase = "complete"
  /\ lastFi.called
  /\ ~lastFi.out.imagesFound

\* C27: if every awaited model call and image search settles, every generating
\* phase is followed by awaitingImageConfirmation or idle and every
\* fetchingImages phase by complete; when the image step fails the document is
\* shown with the body handed to it, without images.
C27_LoadingEnds ==
  /\ (generationPhase = "generating") ~>
       (generationPhase \in {"awaitingImageConfirmation", "idle"})
  /\ (generationPhase = "fetchingImages") ~> (generationPhase = "complete")
  /\ [](ImageStepFailed =>
          /\ blogResult # <<>>
          /\ blogResult[1].post = lastFi.post
          /\ blogResult[1].post = blogResult[1].originalPost)

\* C27 witness: the last search of the image step failed and the document is
\* shown complete with the body unchanged
C27_Witness ==
  /\ ImageStepFailed
  /\ lastSearch.called
  /\ lastSearch.response.kind = "notOk"
  /\ blogResult[1].post = lastFi.post
  /\ lastFi.post # <<>>

----------------------------------------------------------------------------
(* Claims on what media injection leaves of the body, checked under SpecInject *)

\* a figure block, as media injection writes it, starts at position i of s
FigureBlockAt(s, i) == i + 6 <= Len(s) /\ SubSeq(s, i, i + 6) = imgHtml(s[i + 3])

FigureBlocks(s) == {i \in 1..Len(s) : FigureBlockAt(s, i)}

\* s without the figure blocks that start at the positions in D
Without(s, D) ==
  LET keep == {k \in 1..Len(s) : \A i \in D : k < i \/ k > i + 6}
      nth(j) == CHOOSE k \in keep : Cardinality({x \in keep : x <= k}) = j
  IN  [j \in 1..Cardinality(keep) |-> s[nth(j)]]

\* C28: media injection only adds figures: for every body and every non-empty
\* asset list, deleting the inserted figure blocks from the output gives back
\* the input body exactly.
C28_OnlyAddsFigures ==
  (lastFi.called /\ lastFi.images # <<>>) =>
    \E D \in SUBSET FigureBlocks(lastFi.out.post) :
      /\ Cardinality(D) = Inserted
      /\ Without(lastFi.out.post, D) = lastFi.post

----------------------------------------------------------------------------
(* api/cron/daily-digest.ts: the handler of one HTTP request *)

\* the template string 'Bearer ' + CRON_SECRET: an unset secret is interpolated as "undefined"
BearerOf(secret) ==
  IF secret = <<>> THEN <<"Bearer ", "undefined">> ELSE <<"Bearer ">> \o secret

\* the conditions of the two nested ifs of the authentication step: the header
\* differs from the bearer string and the key parameter differs from the secret
AuthFailed(req, env) ==
  /\ req.authorization # BearerOf(env.CRON_SECRET)
  /\ req.key # env.CRON_SECRET

\* text with the markdown code fences (three backquotes, with or without "json")
\* removed, trimmed; "fence-json" and "fence" stand for the two fences
CleanText(text) == Trim(SelectSeq(text, LAMBDA t : t \notin {"fence-json", "fence"}))

\* title strings of a JSON document
JsonStrings == {"T1", "T2", "T3", "T4", "T5", "T6"}

\* JSON.parse(cleanText): an array of strings, null, a number, or a SyntaxError;
\* whitespace between the tokens of the document is insignificant
JsonParse(cleanText) ==
  LET doc == SelectSeq(cleanText, LAMBDA t : t \notin Whitespace)
      inner == SubSeq(doc, 2, Len(doc) - 1)
      isArray ==
        /\ Len(doc) >= 2
        /\ doc[1] = "[" /\ doc[Len(doc)] = "]"
        /\ inner = <<>> \/ Len(inner) % 2 = 1
        /\ \A i \in 1..Len(inner) :
             IF i % 2 = 1 THEN inner[i] \in JsonStrings ELSE inner[i] = ","
  IN  IF isArray
        THEN [kind |-> "array",
              items |-> [k \in 1..((Len(inner) + 1) \div 2) |-> <<inner[2 * k - 1]>>]]
      ELSE IF doc = <<"null">> THEN [kind |-> "null", items |-> <<>>]
      ELSE IF doc = <<"7">> THEN [kind |-> "number", items |-> <<>>]
      ELSE [kind |-> "syntaxError", items |-> <<>>]

\* .slice(0, 5) of the line fallback
FallbackTitleCap == 5

\* text.split('\n').filter(line => line.trim().length > 0).slice(0, 5)
FallbackLines(text) == Slice(SelectSeq(Split(text, "\n"), NonBlank), FallbackTitleCap)

ApiKeyNotSetMessage == <<"API_KEY not set">>

\* getTrendingTitles(topic) from the settling of ai.models.generateContent to
\* its return or throw
getTrendingTitles(outcome) ==
  IF outcome.kind # "text"
    THEN [threw |-> TRUE, message |-> outcome.message, value |-> JsonParse(<<>>)]
  ELSE IF outcome.text = <<>>
    THEN [threw |-> FALSE, message |-> <<>>, value |-> [kind |-> "array", items |-> <<>>]]
  ELSE LET parsed == JsonParse(CleanText(outcome.text))
       IN  [threw |-> FALSE, message |-> <<>>,
            value |-> IF parsed.kind = "syntaxError"
                        THEN [kind |-> "array", items |-> FallbackLines(outcome.text)]
                        ELSE parsed]

\* res.status(status).json({ [key]: text, titles })
Response(status, key, text, titles) ==
  [status |-> status, key |-> key, text |-> text, titles |-> titles]

Respond(d, r) == [d EXCEPT !.pc = "done", !.responses = Append(d.responses, r)]

\* handler(req, res) up to the await of the model call inside getTrendingTitles.
\* The body of the inner if of the authentication step is a comment, so the
\* outcome of the two tests changes nothing.
HandlerStart ==
  /\ digest.pc = "start"
  /\ LET d == [digest EXCEPT !.authFailed = AuthFailed(digest.req, digest.env)]
     IN  digest' =
           IF d.env.API_KEY = <<>>
             THEN Respond(d, Response(500, "error", ApiKeyNotSetMessage, <<>>))
             ELSE [d EXCEPT !.pc = "titles", !.modelCalls = d.modelCalls + 1]
  /\ UNCHANGED <<appVars, pexelsConfigured, genCalls, fiCalls, pxCalls, lastGen, lastFi,
                 lastSearch, lastTitle, cite>>

TypeErrorMessage == <<"TypeError">>

\* the handler from the return of getTrendingTitles to the await of sendMail, or
\* to its response
AfterTitles(d, r) ==
  IF r.threw
    THEN Respond(d, Response(500, "error", r.message, <<>>))
  ELSE IF r.value.kind \in {"null", "number"}
    \* titles.length or titles.map raises a TypeError
    THEN Respond(d, Response(500, "error", TypeErrorMessage, <<>>))
  ELSE IF Len(r.value.items) = 0
    THEN Respond(d, Response(200, "message", <<"No titles found.">>, <<>>))
  ELSE IF d.env.GMAIL_USER # <<>>
    THEN [d EXCEPT !.pc = "mail", !.titles = r.value.items,
                   !.mails = Append(d.mails, [to |-> d.env.GMAIL_USER,
                                              titles |-> r.value.items])]
  ELSE Respond([d EXCEPT !.titles = r.value.items],
               Response(500, "error", <<"GMAIL_USER not configured">>, <<>>))

\* raw responses of the model to the titles prompt: nothing, a JSON array (empty,
\* spaced, fenced), six plain lines, blank lines, and JSON that is no array
DigestTexts ==
  { <<>>,
    <<"[", "]">>,
    <<"[", "T1", ",", " ", "T2", "]">>,
    <<"fence-json", "\n", "[", "T1", "]", "\n", "fence">>,
    <<"T1", "\n", " ", "\n", "T2", "\n", "T3", "\n", "T4", "\n", "T5", "\n", "T6">>,
    <<" ", "\n", " ">>,
    <<"null">>,
    <<"7">> }

\* the model call of getTrendingTitles settles and the handler goes on
HandlerAfterTitles ==
  /\ digest.pc = "titles"
  /\ \E outcome \in {ModelOutcome("text", t, <<>>) : t \in DigestTexts}
                      \cup {ModelOutcome("error", <<>>, m) : m \in UpstreamMessages} :
       digest' = AfterTitles([digest EXCEPT !.outcome = outcome], getTrendingTitles(outcome))
  /\ UNCHANGED <<appVars, pexelsConfigured, genCalls, fiCalls, pxCalls, lastGen, lastFi,
                 lastSearch, lastTitle, cite>>

\* sendEmail: transporter.sendMail resolves, or rejects and the error is rethrown
SendOutcomes == {[ok |-> TRUE, message |-> <<>>], [ok |-> FALSE, message |-> <<"smtp">>]}

\* mutant of AfterSend: the success response is sent whatever sendEmail did
AfterSend_AlwaysOk(d, sent) ==
  Respond([d EXCEPT !.delivered = sent.ok],
          Response(200, "message", <<"Email sent successfully">>, d.titles))

\* the handler after 'await sendEmail(...)': the success response, or the catch block
AfterSend(d, sent) ==
  IF sent.ok
    THEN Respond([d EXCEPT !.delivered = TRUE],
                 Response(200, "message", <<"Email sent successfully">>, d.titles))
    ELSE Respond(d, Response(500, "error", sent.message, <<>>))

HandlerAfterSend ==
  /\ digest.pc = "mail"
  /\ \E sent \in SendOutcomes :
       digest' = AfterSend([digest EXCEPT !.sent = <<sent>>], sent)
  /\ UNCHANGED <<appVars, pexelsConfigured, genCalls, fiCalls, pxCalls, lastGen, lastFi,
                 lastSearch, lastTitle, cite>>

\* requests: no Authorization header, the right bearer, a wrong one, the bearer of
\* an unset secret; no key parameter, the right key, a wrong one
AuthorizationHeaders ==
  {<<>>, <<"Bearer ", "s3cret">>, <<"Bearer ", "guess">>, <<"Bearer ", "undefined">>}

KeyParams == {<<>>, <<"s3cret">>, <<"guess">>}

InitDigest ==
  /\ keyword = <<>>
  /\ generationPhase = "idle"
  /\ blogResult = <<>>
  /\ pendingBlogResult = <<>>
  /\ error = <<>>
  /\ autoStartRef = FALSE
  /\ effectsPending = 0
  /\ pexelsConfigured = FALSE
  /\ genCalls = <<>>
  /\ fiCalls = <<>>
  /\ pxCalls = <<>>
  /\ lastGen = NoGen
  /\ lastFi = NoFi
  /\ lastSearch = NoSearch
  /\ lastTitle = NoTitle
  /\ cite = NoCite
  /\ \E apiKey \in {<<>>, <<"key">>}, gmailUser \in {<<>>, <<"me@gmail">>},
        cronSecret \in {<<>>, <<"s3cret">>},
        authorization \in AuthorizationHeaders, key \in KeyParams :
       digest = [NoDigest EXCEPT
                   !.pc = "start",
                   !.env = [API_KEY |-> apiKey, GMAIL_USER |-> gmailUser,
                            CRON_SECRET |-> cronSecret],
                   !.req = [authorization |-> authorization, key |-> key]]

NextDigest ==
  \/ HandlerStart
  \/ HandlerAfterTitles
  \/ HandlerAfterSend

SpecDigest == InitDigest /\ [][NextDigest]_vars

----------------------------------------------------------------------------
(* Claims on the daily-digest handler, checked under SpecDigest *)

\* the request carries the cron secret: the Authorization header is the bearer
\* string of the configured secret, or the key parameter is the secret
CarriesSecret ==
  /\ digest.env.CRON_SECRET # <<>>
  /\ \/ digest.req.authorization = <<"Bearer ">> \o digest.env.CRON_SECRET
     \/ digest.req.key = digest.env.CRON_SECRET

\* C29: the daily-digest handler calls the model and sends e-mail only for
\* requests that carry the cron secret; every other request is rejected
\* without generating titles or sending mail.
C29_SecretRequired ==
  (digest.pc # "none" /\ ~CarriesSecret) =>
    /\ digest.modelCalls = 0
    /\ digest.mails = <<>>

\* the title list getTrendingTitles returned for the settled model call, or <<>>
\* when it threw or returned no list
ReturnedTitles ==
  LET r == getTrendingTitles(digest.outcome)
  IN  IF ~r.threw /\ r.value.kind = "array" THEN r.value.items ELSE <<>>

TitleGenerationFailed == digest.outcome.kind = "error" \/ digest.env.API_KEY = <<>>

C30_Response(r) ==
  /\ digest.env.API_KEY = <<>> =>
       r = Response(500, "error", ApiKeyNotSetMessage, <<>>) /\ digest.modelCalls = 0
  /\ digest.outcome.kind = "error" =>
       r = Response(500, "error", digest.outcome.message, <<>>)
  /\ TitleGenerationFailed => digest.mails = <<>>
  /\ (digest.outcome.kind = "text" /\ getTrendingTitles(digest.outcome).value.kind = "array"
        /\ ReturnedTitles = <<>>) =>
       r = Response(200, "message", <<"No titles found.">>, <<>>) /\ digest.mails = <<>>
  /\ (ReturnedTitles # <<>> /\ digest.env.GMAIL_USER = <<>>) =>
       r.status = 500 /\ r.key = "error" /\ digest.mails = <<>>
  /\ (r.status = 200 /\ r.text = <<"Email sent successfully">>) =>
       /\ digest.delivered
       /\ digest.sent # <<>> /\ digest.sent[1].ok
       /\ digest.mails = <<[to |-> digest.env.GMAIL_USER, titles |-> ReturnedTitles]>>
       /\ r.titles = ReturnedTitles
  /\ (digest.sent # <<>> /\ ~digest.sent[1].ok) =>
       r = Response(500, "error", digest.sent[1].message, <<>>)

============================================================================
